---- MODULE Spec2Model ----
(***************************************************************************)
(* A state-machine model of the pdjr-ais-reporter plugin (src/src/index.ts, *)
(* the compiled plugin at lines 807-1299): configuration normalisation,    *)
(* the one-minute heartbeat that decides which report fires for which      *)
(* endpoint and vessel class, the two report generators, the rolling       *)
(* statistics and the /status snapshot.                                    *)
(***************************************************************************)
EXTENDS Integers, Sequences, FiniteSets, TLC

VARIABLES
    started,              \* host lifecycle: start() was called and stop() not yet
    pluginConfiguration,  \* var pluginConfiguration (line 890)
    pluginStatus,         \* var pluginStatus (line 891): its default status text
    udpSocket,            \* var udpSocket (line 892): "undefined", "open" or "closed"
    heartbeatInterval,
    \* var heartbeatInterval (line 893): it refers to an armed timer, and the
    \* configuration object of that timer is the value of pluginConfiguration
    orphans,
    \* the other armed timers, each with the configuration object it was
    \* started with (the argument of startReporting, line 1013) and whether
    \* heartbeatInterval refers to it
    heartbeatCount,       \* var heartbeatCount (line 894)
    now,                  \* Date.now(), in milliseconds
    lastOp,               \* which operation made the last step
    raised,               \* the last operation threw to its caller
    lastStart,            \* what start() was handed, when it made the last step
    lastTick,             \* what the last heartbeat saw and did (history)
    response              \* the reply of the last step, when it was GET /status

vars == <<started, pluginConfiguration, pluginStatus, udpSocket, heartbeatInterval, orphans,
          heartbeatCount, now, lastOp, raised, lastStart, lastTick, response>>

----------------------------------------------------------------------------
(* Program constants *)

DEFAULT_MY_AIS_CLASS == "B"
DEFAULT_POSITION_UPDATE_INTERVAL == 5
DEFAULT_STATIC_DATA_UPDATE_INTERVAL == 15
DEFAULT_EXPIRY_INTERVAL == 15
DEFAULT_HEARTBEAT_INTERVAL == 60000

\* the ring sizes handed to updateVector, and the arrays built at start
HourRing == 60
DayRing == 24

\* the factors the two freshness tests multiply expiryInterval by
SelfExpiryFactor == 6000
OthersExpiryFactor == 60000

\* milliseconds in a minute, the unit the schema gives expiryInterval in
MsPerMinute == 60000

----------------------------------------------------------------------------
(* Bounds of the model *)

MaxTicks == 3        \* heartbeats of a run of Spec
GenTicks == 2        \* heartbeats of a run of SpecGen
LongTicks == 600     \* heartbeats of a run of SpecLong
Epoch == 1000000     \* Date.now() when the process begins

\* sentence lengths the encoder returns (msg.nmea.length), by message type
PosNmeaLen == 3
StaticANmeaLen == 5
Part0NmeaLen == 2
Part1NmeaLen == 4

----------------------------------------------------------------------------
(* JavaScript values *)

Has(o, name) == name \in DOMAIN o

\* the empty object {}
EmptyObject == [x \in {} |-> 0]

\* (o[name] || {})
SubObject(o, name) == IF Has(o, name) THEN o[name] ELSE EmptyObject

\* an array element that is a hole: reading a property of it throws TypeError
Hole == [hole |-> TRUE]

IsHole(o) == Has(o, "hole")

RECURSIVE SumFrom(_, _)
SumFrom(s, k) == IF k > Len(s) THEN 0 ELSE s[k] + SumFrom(s, k + 1)

\* s.reduce((a, v) => (a + v), 0)
SumSeq(s) == SumFrom(s, 1)

Zeros(n) == [i \in 1..n |-> 0]

----------------------------------------------------------------------------
(* makePluginConfiguration (lines 940-1001)                                 *)
(* A raw object is a function from the property names it defines to their  *)
(* values.  A raw interval is [scalar |-> n] or [array |-> <<n, ...>>].      *)
(* An absent updateIntervalIndexPath (undefined) is the empty string: the   *)
(* code only tests it for truthiness.  A result is [threw |-> TRUE] or      *)
(* [threw |-> FALSE, value |-> v].                                          *)

NoPath == ""

Threw == [threw |-> TRUE]

Returned(v) == [threw |-> FALSE, value |-> v]

RECURSIVE getOption(_, _, _)
getOption(objects, name, fallback) ==
    IF objects = <<>> THEN Returned(fallback)
    ELSE IF IsHole(objects[1]) THEN Threw
    ELSE IF Has(objects[1], name) THEN Returned(objects[1][name])
    ELSE getOption(Tail(objects), name, fallback)

\* (Array.isArray(x)) ? x : [x]
ToArray(x) == IF Has(x, "array") THEN x.array ELSE <<x.scalar>>

RECURSIVE getOptionArray(_, _, _)
getOptionArray(objects, name, fallback) ==
    IF objects = <<>> THEN Returned(fallback)
    ELSE IF IsHole(objects[1]) THEN Threw
    ELSE IF Has(objects[1], name) THEN Returned(ToArray(objects[1][name]))
    ELSE getOptionArray(Tail(objects), name, fallback)

\* the four levels a leaf is looked up in, most specific first
Levels(options, option, class) ==
    << SubObject(option, class), option, SubObject(options, class), options >>

\* line 959: the array literal for myVessel.staticUpdateIntervals has an
\* empty slot before the global level
LevelsMyStatic(options, option) ==
    << SubObject(option, "myVessel"), option, SubObject(options, "myVessel"), Hole, options >>

NewReportTypeStatistics ==
    [ lastReportTimestamp |-> 0,     \* undefined
      totalBytesTransmitted |-> 0,
      bytesTransmittedInLastHour |-> Zeros(HourRing),
      bytesTransmittedInLastDay |-> Zeros(DayRing),
      totalReportsTransmitted |-> 0,
      reportsTransmittedInLastHour |-> Zeros(HourRing),
      reportsTransmittedInLastDay |-> Zeros(DayRing) ]

NewStatistics(t) ==
    [ started |-> t,
      totalBytesTransmitted |-> 0,
      position |-> NewReportTypeStatistics,
      static |-> NewReportTypeStatistics ]

\* the body of options.endpoints.forEach (lines 947-973) for one endpoint
makeEndpoint(options, option, t) ==
    LET mvE == getOption(Levels(options, option, "myVessel"), "expiryInterval", DEFAULT_EXPIRY_INTERVAL)
        mvP == getOptionArray(Levels(options, option, "myVessel"), "positionUpdateInterval", <<DEFAULT_POSITION_UPDATE_INTERVAL>>)
        mvS == getOptionArray(LevelsMyStatic(options, option), "staticUpdateInterval", <<DEFAULT_STATIC_DATA_UPDATE_INTERVAL>>)
        mvX == getOption(Levels(options, option, "myVessel"), "updateIntervalIndexPath", NoPath)
        ovE == getOption(Levels(options, option, "otherVessels"), "expiryInterval", DEFAULT_EXPIRY_INTERVAL)
        ovP == getOptionArray(Levels(options, option, "otherVessels"), "positionUpdateInterval", <<DEFAULT_POSITION_UPDATE_INTERVAL>>)
        ovS == getOptionArray(Levels(options, option, "otherVessels"), "staticUpdateInterval", <<DEFAULT_STATIC_DATA_UPDATE_INTERVAL>>)
        ovX == getOption(Levels(options, option, "otherVessels"), "updateIntervalIndexPath", NoPath)
    IN  IF ~Has(option, "ipAddress") \/ option.ipAddress = "" THEN Threw
        ELSE IF ~Has(option, "port") \/ option.port = 0 THEN Threw
        ELSE IF mvE.threw \/ mvP.threw \/ mvS.threw \/ mvX.threw
                \/ ovE.threw \/ ovP.threw \/ ovS.threw \/ ovX.threw THEN Threw
        ELSE Returned(
            [ name |-> IF Has(option, "name") /\ option.name # "" THEN option.name ELSE option.ipAddress,
              ipAddress |-> option.ipAddress,
              port |-> option.port,
              myVessel |-> [ expiryInterval |-> mvE.value,
                             positionUpdateIntervals |-> mvP.value,
                             staticUpdateIntervals |-> mvS.value,
                             updateIntervalIndexPath |-> mvX.value ],
              otherVessels |-> [ expiryInterval |-> ovE.value,
                                 positionUpdateIntervals |-> ovP.value,
                                 staticUpdateIntervals |-> ovS.value,
                                 updateIntervalIndexPath |-> ovX.value ],
              statistics |-> NewStatistics(t) ])

\* a normalization that leaves out the endpoints it cannot make
RECURSIVE makeEndpointsSkipBad(_, _, _)
makeEndpointsSkipBad(options, rest, t) ==
    IF rest = <<>> THEN Returned(<<>>)
    ELSE LET e == makeEndpoint(options, Head(rest), t)
             more == makeEndpointsSkipBad(options, Tail(rest), t)
         IN  IF e.threw THEN more
             ELSE Returned(<<e.value>> \o more.value)

RECURSIVE makeEndpoints(_, _, _)
makeEndpoints(options, rest, t) ==
    IF rest = <<>> THEN Returned(<<>>)
    ELSE LET e == makeEndpoint(options, Head(rest), t)
             more == makeEndpoints(options, Tail(rest), t)
         IN  IF e.threw THEN Threw
             ELSE IF more.threw THEN Threw
             ELSE Returned(<<e.value>> \o more.value)

\* selfMMSI and selfClass are app.getSelfPath('mmsi') and
\* app.getSelfPath('sensors.ais.class.value') ("" when the path has no value)
makePluginConfiguration(options, selfMMSI, selfClass, t) ==
    LET eps == makeEndpoints(options, options.endpoints, t)
    IN  IF eps.threw THEN Threw
        ELSE Returned([ myMMSI |-> selfMMSI,
                        myAisClass |-> IF selfClass # "" THEN selfClass ELSE DEFAULT_MY_AIS_CLASS,
                        endpoints |-> eps.value ])

----------------------------------------------------------------------------
(* The report generators (lines 1080-1232)                                  *)
(* A vessel is [mmsi, hasTimestamp, timestamp, aisClass, posValid,          *)
(* staticValid, partBValid]: aisClass is sensors.ais.class.value ("" when   *)
(* absent) and the three flags are what the encoder answers for the         *)
(* vessel's data (msg.valid) for a position message, for a type 5 or type   *)
(* 24 part 0 message, and for a type 24 part 1 message.  The value of       *)
(* app.getPath('vessels') is [defined |-> TRUE, values |-> the sequence of  *)
(* vessels, in the order of Object.values] or [defined |-> FALSE].          *)

NoReports == [ myVessel |-> [count |-> 0, bytes |-> 0],
               otherVessels |-> [count |-> 0, bytes |-> 0] ]

\* socket.send(msg + '\n', 0, msg.length + 1, ...); return msg.length + 1
sendReportMsg(msgLength) == msgLength + 1

\* a first filter that asks for any vessel as soon as one class is asked for
ClassSelectedAnyClass(vessel, cfg, reportSelf, reportOthers) == reportSelf \/ reportOthers

\* the first filter (lines 1088, 1144): the vessel's class is asked for
ClassSelected(vessel, cfg, reportSelf, reportOthers) ==
    \/ reportSelf /\ vessel.mmsi = cfg.myMMSI
    \/ reportOthers /\ vessel.mmsi # cfg.myMMSI

\* a second filter that lets a vessel without a fix through
FreshSelectedAbsentIsFresh(vessel, endpoint, reportSelf, reportOthers, t) ==
    \/ ~vessel.hasTimestamp
    \/ reportSelf /\ vessel.timestamp > t - (endpoint.myVessel.expiryInterval * SelfExpiryFactor)
    \/ reportOthers /\ vessel.timestamp > t - (endpoint.otherVessels.expiryInterval * OthersExpiryFactor)

\* the second filter (lines 1089, 1145): the position fix is recent
FreshSelected(vessel, endpoint, reportSelf, reportOthers, t) ==
    \/ reportSelf /\ vessel.hasTimestamp
         /\ vessel.timestamp > t - (endpoint.myVessel.expiryInterval * SelfExpiryFactor)
    \/ reportOthers /\ vessel.hasTimestamp
         /\ vessel.timestamp > t - (endpoint.otherVessels.expiryInterval * OthersExpiryFactor)

\* a count of one report per sentence
CountPerSentence(acc, vessel, cfg, reportSelf, bytesTransmitted, sentences) ==
    LET rs == acc.reportStatistics
        bucket == IF reportSelf /\ vessel.mmsi = cfg.myMMSI THEN "myVessel" ELSE "otherVessels"
    IN  [ reportStatistics |->
              [rs EXCEPT ![bucket] = [count |-> @.count + Len(sentences),
                                      bytes |-> @.bytes + bytesTransmitted]],
          sent |-> acc.sent \o sentences ]

\* lines 1108-1115: count one report and its bytes in the vessel's bucket
Count(acc, vessel, cfg, reportSelf, bytesTransmitted, sentences) ==
    LET rs == acc.reportStatistics
        bucket == IF reportSelf /\ vessel.mmsi = cfg.myMMSI THEN "myVessel" ELSE "otherVessels"
    IN  [ reportStatistics |->
              [rs EXCEPT ![bucket] = [count |-> @.count + 1, bytes |-> @.bytes + bytesTransmitted]],
          sent |-> acc.sent \o sentences ]

Sentence(vessel, kind, length) == [mmsi |-> vessel.mmsi, kind |-> kind, length |-> length]

\* lines 1093, 1149
AisClassOf(vessel, cfg) ==
    IF vessel.mmsi = cfg.myMMSI THEN cfg.myAisClass
    ELSE IF vessel.aisClass # "" THEN vessel.aisClass ELSE DEFAULT_MY_AIS_CLASS

\* the body of forEach in reportPosition (lines 1091-1122)
positionOne(acc, vessel, cfg, reportSelf) ==
    IF vessel.posValid
    THEN Count(acc, vessel, cfg, reportSelf, sendReportMsg(PosNmeaLen),
               << Sentence(vessel, "position", PosNmeaLen) >>)
    ELSE acc

\* a class B report that transmits part 0 before part 1 is encoded
staticOnePart0First(acc, vessel, cfg, reportSelf) ==
    CASE AisClassOf(vessel, cfg) = "A" ->
            IF vessel.staticValid
            THEN Count(acc, vessel, cfg, reportSelf, sendReportMsg(StaticANmeaLen),
                       << Sentence(vessel, "static5", StaticANmeaLen) >>)
            ELSE acc
      [] AisClassOf(vessel, cfg) = "B" ->
            IF vessel.staticValid
            THEN IF vessel.partBValid
                 THEN Count(acc, vessel, cfg, reportSelf,
                            sendReportMsg(Part0NmeaLen) + sendReportMsg(Part1NmeaLen),
                            << Sentence(vessel, "part0", Part0NmeaLen),
                               Sentence(vessel, "part1", Part1NmeaLen) >>)
                 ELSE [acc EXCEPT !.sent = @ \o << Sentence(vessel, "part0", Part0NmeaLen) >>]
            ELSE acc
      [] OTHER -> acc

\* the body of forEach in reportStatic (lines 1147-1214)
staticOne(acc, vessel, cfg, reportSelf) ==
    CASE AisClassOf(vessel, cfg) = "A" ->
            IF vessel.staticValid
            THEN Count(acc, vessel, cfg, reportSelf, sendReportMsg(StaticANmeaLen),
                       << Sentence(vessel, "static5", StaticANmeaLen) >>)
            ELSE acc
      [] AisClassOf(vessel, cfg) = "B" ->
            IF vessel.staticValid /\ vessel.partBValid
            THEN Count(acc, vessel, cfg, reportSelf,
                       sendReportMsg(Part0NmeaLen) + sendReportMsg(Part1NmeaLen),
                       << Sentence(vessel, "part0", Part0NmeaLen),
                          Sentence(vessel, "part1", Part1NmeaLen) >>)
            ELSE acc
      [] OTHER -> acc

\* a loop without the try/catch around a vessel: the first vessel whose
\* encoding fails ends it
RECURSIVE reportLoopAbortOnFailure(_, _, _, _, _, _, _, _)
reportLoopAbortOnFailure(type, acc, vs, endpoint, cfg, reportSelf, reportOthers, t) ==
    IF vs = <<>> THEN acc
    ELSE LET vessel == Head(vs)
             selected == ClassSelected(vessel, cfg, reportSelf, reportOthers)
                           /\ FreshSelected(vessel, endpoint, reportSelf, reportOthers, t)
             next == IF selected
                     THEN IF type = "position"
                          THEN positionOne(acc, vessel, cfg, reportSelf)
                          ELSE staticOne(acc, vessel, cfg, reportSelf)
                     ELSE acc
             failed == selected /\ next = acc
                         /\ (type = "position" \/ AisClassOf(vessel, cfg) \in {"A", "B"})
         IN  IF failed THEN acc
             ELSE reportLoopAbortOnFailure(type, next, Tail(vs), endpoint, cfg,
                                           reportSelf, reportOthers, t)

RECURSIVE reportLoop(_, _, _, _, _, _, _, _)
reportLoop(type, acc, vs, endpoint, cfg, reportSelf, reportOthers, t) ==
    IF vs = <<>> THEN acc
    ELSE LET vessel == Head(vs)
             next == IF ClassSelected(vessel, cfg, reportSelf, reportOthers)
                        /\ FreshSelected(vessel, endpoint, reportSelf, reportOthers, t)
                     THEN IF type = "position"
                          THEN positionOne(acc, vessel, cfg, reportSelf)
                          ELSE staticOne(acc, vessel, cfg, reportSelf)
                     ELSE acc
         IN  reportLoop(type, next, Tail(vs), endpoint, cfg, reportSelf, reportOthers, t)

\* reportPosition / reportStatic: Object.values(undefined) throws
report(type, vessels, endpoint, cfg, reportSelf, reportOthers, t) ==
    IF ~vessels.defined THEN Threw
    ELSE Returned(reportLoop(type, [reportStatistics |-> NoReports, sent |-> <<>>],
                             vessels.values, endpoint, cfg, reportSelf, reportOthers, t))

reportPosition(vessels, endpoint, cfg, reportSelf, reportOthers, t) ==
    report("position", vessels, endpoint, cfg, reportSelf, reportOthers, t)

reportStatic(vessels, endpoint, cfg, reportSelf, reportOthers, t) ==
    report("static", vessels, endpoint, cfg, reportSelf, reportOthers, t)

----------------------------------------------------------------------------
(* The heartbeat callback of startReporting (lines 1015-1068)               *)
(* A value of app.getSelfPath(path + '.value') is [kind |-> "undefined"],   *)
(* [kind |-> "number", n |-> k] or [kind |-> "text"] (a string that is no   *)
(* index and no property of an array).                                      *)

NoValue == [kind |-> "undefined"]

Number(k) == [kind |-> "number", n |-> k]

Text == [kind |-> "text"]

\* an index that is never read from the store
IndexOfAlwaysZero(path, store) == Number(0)

\* (path) ? (app.getSelfPath(`${path}.value`) || 0) : 0   (lines 1021-1022)
IndexOf(path, store) ==
    IF path # NoPath
    THEN IF store[path].kind = "undefined" THEN Number(0) ELSE store[path]
    ELSE Number(0)

\* _.get(endpoint, `<class>.<intervals>[${idx}]`, 0)   (lines 1023-1026)
IntervalAt(intervals, idx) ==
    IF idx.kind = "number" /\ idx.n >= 0 /\ idx.n < Len(intervals)
    THEN intervals[idx.n + 1]
    ELSE 0

\* a firing condition that holds at every heartbeat
FiresWhenever(interval, heartbeat) == TRUE

\* (interval !== 0) && ((heartbeatCount % interval) === 0)
Fires(interval, heartbeat) == (interval # 0) /\ ((heartbeat % interval) = 0)

\* a flag computed from the count of the next heartbeat
FlagOffByOne(interval, heartbeat) == IF interval = 0 THEN FALSE ELSE ((heartbeat + 1) % interval) = 0

\* (interval === 0) ? false : ((heartbeatCount % interval) === 0)
Flag(interval, heartbeat) == IF interval = 0 THEN FALSE ELSE (heartbeat % interval) = 0

\* a rotation that puts the value, already added to the old front slot, in the
\* new front slot as well
updateVectorUnshiftValue(vector, rollover, heartbeat, value) ==
    LET added == [vector EXCEPT ![1] = @ + value]
    IN  IF heartbeat # 0 /\ (heartbeat % rollover) = 0
        THEN <<value>> \o SubSeq(added, 1, rollover - 1)
        ELSE added

\* a rotation that discards the front slot with what it has accumulated
updateVectorDropFront(vector, rollover, heartbeat, value) ==
    LET added == [vector EXCEPT ![1] = @ + value]
    IN  IF heartbeat # 0 /\ (heartbeat % rollover) = 0
        THEN <<0>> \o SubSeq(added, 2, rollover)
        ELSE added

\* a rotation that inserts the new slot without dropping the oldest one
updateVectorNoSlice(vector, rollover, heartbeat, value) ==
    LET added == [vector EXCEPT ![1] = @ + value]
    IN  IF heartbeat # 0 /\ (heartbeat % rollover) = 0
        THEN <<0>> \o added
        ELSE added

\* lines 1059-1068
updateVector(vector, rollover, heartbeat, value) ==
    LET added == [vector EXCEPT ![1] = @ + value]
    IN  IF heartbeat # 0 /\ (heartbeat % rollover) = 0
        THEN <<0>> \o SubSeq(added, 1, rollover - 1)
        ELSE added

\* an update that counts the own vessel's reports and bytes only
updateReportStatisticsSelfOnly(endpointReportStatistics, reportStatistics, heartbeat, t) ==
    LET count == reportStatistics.myVessel.count
        bytes == reportStatistics.myVessel.bytes
    IN  [ lastReportTimestamp |-> t,
          totalReportsTransmitted |-> endpointReportStatistics.totalReportsTransmitted + count,
          totalBytesTransmitted |-> endpointReportStatistics.totalBytesTransmitted + bytes,
          reportsTransmittedInLastHour |->
              updateVector(endpointReportStatistics.reportsTransmittedInLastHour, HourRing, heartbeat, count),
          bytesTransmittedInLastHour |->
              updateVector(endpointReportStatistics.bytesTransmittedInLastHour, HourRing, heartbeat, bytes),
          reportsTransmittedInLastDay |->
              updateVector(endpointReportStatistics.reportsTransmittedInLastDay, DayRing, heartbeat, count),
          bytesTransmittedInLastDay |->
              updateVector(endpointReportStatistics.bytesTransmittedInLastDay, DayRing, heartbeat, bytes) ]

\* an update that assigns the totals (=) where the code adds to them (+=)
updateReportStatisticsAssign(endpointReportStatistics, reportStatistics, heartbeat, t) ==
    LET count == reportStatistics.myVessel.count + reportStatistics.otherVessels.count
        bytes == reportStatistics.myVessel.bytes + reportStatistics.otherVessels.bytes
    IN  [ lastReportTimestamp |-> t,
          totalReportsTransmitted |-> count,
          totalBytesTransmitted |-> bytes,
          reportsTransmittedInLastHour |->
              updateVector(endpointReportStatistics.reportsTransmittedInLastHour, HourRing, heartbeat, count),
          bytesTransmittedInLastHour |->
              updateVector(endpointReportStatistics.bytesTransmittedInLastHour, HourRing, heartbeat, bytes),
          reportsTransmittedInLastDay |->
              updateVector(endpointReportStatistics.reportsTransmittedInLastDay, DayRing, heartbeat, count),
          bytesTransmittedInLastDay |->
              updateVector(endpointReportStatistics.bytesTransmittedInLastDay, DayRing, heartbeat, bytes) ]

\* an update that stamps the time only when the result counts a report
updateReportStatisticsStampOnReport(endpointReportStatistics, reportStatistics, heartbeat, t) ==
    LET count == reportStatistics.myVessel.count + reportStatistics.otherVessels.count
        bytes == reportStatistics.myVessel.bytes + reportStatistics.otherVessels.bytes
    IN  [ lastReportTimestamp |-> IF count > 0 THEN t
                                 ELSE endpointReportStatistics.lastReportTimestamp,
          totalReportsTransmitted |-> endpointReportStatistics.totalReportsTransmitted + count,
          totalBytesTransmitted |-> endpointReportStatistics.totalBytesTransmitted + bytes,
          reportsTransmittedInLastHour |->
              updateVector(endpointReportStatistics.reportsTransmittedInLastHour, HourRing, heartbeat, count),
          bytesTransmittedInLastHour |->
              updateVector(endpointReportStatistics.bytesTransmittedInLastHour, HourRing, heartbeat, bytes),
          reportsTransmittedInLastDay |->
              updateVector(endpointReportStatistics.reportsTransmittedInLastDay, DayRing, heartbeat, count),
          bytesTransmittedInLastDay |->
              updateVector(endpointReportStatistics.bytesTransmittedInLastDay, DayRing, heartbeat, bytes) ]

\* lines 1049-1058
updateReportStatistics(endpointReportStatistics, reportStatistics, heartbeat, t) ==
    LET count == reportStatistics.myVessel.count + reportStatistics.otherVessels.count
        bytes == reportStatistics.myVessel.bytes + reportStatistics.otherVessels.bytes
    IN  [ lastReportTimestamp |-> t,
          totalReportsTransmitted |-> endpointReportStatistics.totalReportsTransmitted + count,
          totalBytesTransmitted |-> endpointReportStatistics.totalBytesTransmitted + bytes,
          reportsTransmittedInLastHour |->
              updateVector(endpointReportStatistics.reportsTransmittedInLastHour, HourRing, heartbeat, count),
          bytesTransmittedInLastHour |->
              updateVector(endpointReportStatistics.bytesTransmittedInLastHour, HourRing, heartbeat, bytes),
          reportsTransmittedInLastDay |->
              updateVector(endpointReportStatistics.reportsTransmittedInLastDay, DayRing, heartbeat, count),
          bytesTransmittedInLastDay |->
              updateVector(endpointReportStatistics.bytesTransmittedInLastDay, DayRing, heartbeat, bytes) ]

\* what the heartbeat records of one generator call
NoCall == [ called |-> FALSE, reportSelf |-> FALSE, reportOthers |-> FALSE,
            returned |-> FALSE, reportStatistics |-> NoReports, sent |-> <<>> ]

Call(reportSelf, reportOthers, result) ==
    [ called |-> TRUE, reportSelf |-> reportSelf, reportOthers |-> reportOthers,
      returned |-> ~result.threw,
      reportStatistics |-> IF result.threw THEN NoReports ELSE result.value.reportStatistics,
      sent |-> IF result.threw THEN <<>> ELSE result.value.sent ]

\* a heartbeat body that updates the statistics of a report type also when
\* the report type did not fire, with an empty result
processEndpointAlwaysUpdates(endpoint, cfg, heartbeat, vessels, store, t) ==
    LET mvIDX == IndexOf(endpoint.myVessel.updateIntervalIndexPath, store)
        ovIDX == IndexOf(endpoint.otherVessels.updateIntervalIndexPath, store)
        mvPUI == IntervalAt(endpoint.myVessel.positionUpdateIntervals, mvIDX)
        mvSUI == IntervalAt(endpoint.myVessel.staticUpdateIntervals, mvIDX)
        ovPUI == IntervalAt(endpoint.otherVessels.positionUpdateIntervals, ovIDX)
        ovSUI == IntervalAt(endpoint.otherVessels.staticUpdateIntervals, ovIDX)
        doPosition == Fires(mvPUI, heartbeat) \/ Fires(ovPUI, heartbeat)
        position == IF doPosition
                    THEN Call(Flag(mvPUI, heartbeat), Flag(ovPUI, heartbeat),
                              reportPosition(vessels, endpoint, cfg,
                                             Flag(mvPUI, heartbeat), Flag(ovPUI, heartbeat), t))
                    ELSE NoCall
        positionThrew == position.called /\ ~position.returned
        doStatic == ~positionThrew /\ (Fires(mvSUI, heartbeat) \/ Fires(ovSUI, heartbeat))
        static == IF doStatic
                  THEN Call(Flag(mvSUI, heartbeat), Flag(ovSUI, heartbeat),
                            reportStatic(vessels, endpoint, cfg,
                                         Flag(mvSUI, heartbeat), Flag(ovSUI, heartbeat), t))
                  ELSE NoCall
        afterPosition == IF position.returned
                         THEN updateReportStatistics(endpoint.statistics.position,
                                                     position.reportStatistics, heartbeat, t)
                         ELSE IF position.called THEN endpoint.statistics.position
                         ELSE updateReportStatistics(endpoint.statistics.position,
                                                     NoReports, heartbeat, t)
        afterStatic == IF static.returned
                       THEN updateReportStatistics(endpoint.statistics.static,
                                                   static.reportStatistics, heartbeat, t)
                       ELSE IF static.called \/ positionThrew THEN endpoint.statistics.static
                       ELSE updateReportStatistics(endpoint.statistics.static,
                                                   NoReports, heartbeat, t)
    IN  [ endpoint |-> [endpoint EXCEPT !.statistics.position = afterPosition,
                                        !.statistics.static = afterStatic],
          did |-> [ mvPUI |-> mvPUI, mvSUI |-> mvSUI, ovPUI |-> ovPUI, ovSUI |-> ovSUI,
                    position |-> position, static |-> static, heartbeat |-> heartbeat ] ]

\* the body of pluginConfiguration.endpoints.forEach (lines 1018-1045):
\* the endpoint as the heartbeat leaves it, and what it did
processEndpoint(endpoint, cfg, heartbeat, vessels, store, t) ==
    LET mvIDX == IndexOf(endpoint.myVessel.updateIntervalIndexPath, store)
        ovIDX == IndexOf(endpoint.otherVessels.updateIntervalIndexPath, store)
        mvPUI == IntervalAt(endpoint.myVessel.positionUpdateIntervals, mvIDX)
        mvSUI == IntervalAt(endpoint.myVessel.staticUpdateIntervals, mvIDX)
        ovPUI == IntervalAt(endpoint.otherVessels.positionUpdateIntervals, ovIDX)
        ovSUI == IntervalAt(endpoint.otherVessels.staticUpdateIntervals, ovIDX)
        doPosition == Fires(mvPUI, heartbeat) \/ Fires(ovPUI, heartbeat)
        position == IF doPosition
                    THEN Call(Flag(mvPUI, heartbeat), Flag(ovPUI, heartbeat),
                              reportPosition(vessels, endpoint, cfg,
                                             Flag(mvPUI, heartbeat), Flag(ovPUI, heartbeat), t))
                    ELSE NoCall
        positionThrew == position.called /\ ~position.returned
        doStatic == ~positionThrew /\ (Fires(mvSUI, heartbeat) \/ Fires(ovSUI, heartbeat))
        static == IF doStatic
                  THEN Call(Flag(mvSUI, heartbeat), Flag(ovSUI, heartbeat),
                            reportStatic(vessels, endpoint, cfg,
                                         Flag(mvSUI, heartbeat), Flag(ovSUI, heartbeat), t))
                  ELSE NoCall
        afterPosition == IF position.returned
                         THEN updateReportStatistics(endpoint.statistics.position,
                                                     position.reportStatistics, heartbeat, t)
                         ELSE endpoint.statistics.position
        afterStatic == IF static.returned
                       THEN updateReportStatistics(endpoint.statistics.static,
                                                   static.reportStatistics, heartbeat, t)
                       ELSE endpoint.statistics.static
    IN  [ endpoint |-> [endpoint EXCEPT !.statistics.position = afterPosition,
                                        !.statistics.static = afterStatic],
          did |-> [ mvPUI |-> mvPUI, mvSUI |-> mvSUI, ovPUI |-> ovPUI, ovSUI |-> ovSUI,
                    position |-> position, static |-> static, heartbeat |-> heartbeat ] ]

----------------------------------------------------------------------------
(* The /status route (lines 1247-1297)                                      *)

Never == [never |-> TRUE, iso |-> 0]

\* (ts) ? (new Date(ts)).toISOString() : 'never'
ToISOString(ts) == IF ts # 0 THEN [never |-> FALSE, iso |-> ts] ELSE Never

\* a status that shows the front slot of a window for its sum
StatusOfTypeFrontSlot(s) ==
    [ lastReportTime |-> ToISOString(s.lastReportTimestamp),
      totalReportsTransmitted |-> s.totalReportsTransmitted,
      totalBytesTransmitted |-> s.totalBytesTransmitted,
      reportsTransmittedInLastHour |-> s.reportsTransmittedInLastHour[1],
      bytesTransmittedInLastHour |-> s.bytesTransmittedInLastHour[1],
      reportsTransmittedInLastDay |-> s.reportsTransmittedInLastDay[1],
      bytesTransmittedInLastDay |-> s.bytesTransmittedInLastDay[1] ]

StatusOfType(s) ==
    [ lastReportTime |-> ToISOString(s.lastReportTimestamp),
      totalReportsTransmitted |-> s.totalReportsTransmitted,
      totalBytesTransmitted |-> s.totalBytesTransmitted,
      reportsTransmittedInLastHour |-> SumSeq(s.reportsTransmittedInLastHour),
      bytesTransmittedInLastHour |-> SumSeq(s.bytesTransmittedInLastHour),
      reportsTransmittedInLastDay |-> SumSeq(s.reportsTransmittedInLastDay),
      bytesTransmittedInLastDay |-> SumSeq(s.bytesTransmittedInLastDay) ]

StatusOf(endpoint) ==
    [ ipAddress |-> endpoint.ipAddress,
      port |-> endpoint.port,
      statistics |-> [ started |-> ToISOString(endpoint.statistics.started),
                       totalBytesTransmitted |-> endpoint.statistics.totalBytesTransmitted,
                       position |-> StatusOfType(endpoint.statistics.position),
                       static |-> StatusOfType(endpoint.statistics.static) ] ]

\* endpoints.reduce((a, endpoint) => { a[endpoint.name] = ...; return a }, {}):
\* a later endpoint of the same name replaces an earlier one
Names(endpoints) == { endpoints[i].name : i \in DOMAIN endpoints }

Shown(endpoints, n) ==
    LET last == CHOOSE i \in DOMAIN endpoints :
                    /\ endpoints[i].name = n
                    /\ \A j \in DOMAIN endpoints : endpoints[j].name = n => j <= i
    IN  endpoints[last]

Snapshot(endpoints) == [ n \in Names(endpoints) |-> StatusOf(Shown(endpoints, n)) ]

\* a route without the catch: no response while pluginConfiguration is
\* undefined
handleRoutesNoCatch(configuration) ==
    IF configuration.defined
    THEN [code |-> 200, body |-> Snapshot(configuration.value.endpoints)]
    ELSE [code |-> 0, body |-> EmptyObject]

\* pluginConfiguration.endpoints throws TypeError while pluginConfiguration is
\* undefined; the catch answers 500 with no body
handleRoutes(configuration) ==
    IF configuration.defined
    THEN [code |-> 200, body |-> Snapshot(configuration.value.endpoints)]
    ELSE [code |-> 500, body |-> EmptyObject]

----------------------------------------------------------------------------
(* The environment: what the host hands to the plugin                       *)

SelfMMSI == "235000001"
OtherMMSI == "235000002"

Paths == {"environment.mode"}

ExtValues == { NoValue, Number(1), Number(2), Number(-1), Text }

Stores == [Paths -> ExtValues]

DefaultStore == [p \in Paths |-> NoValue]

\* ages of a position fix, in milliseconds, around the boundaries of the
\* expiry intervals the configurations below use
Ages == {0, 6000, 60000, 60001, 90000}

Vessel(mmsi, t, age) ==
    [ mmsi |-> mmsi, hasTimestamp |-> TRUE, timestamp |-> t - age, aisClass |-> "",
      posValid |-> TRUE, staticValid |-> TRUE, partBValid |-> TRUE ]

\* the states of one vessel at time t: a fix of each age, no fix, each encoder
\* failure, and for another vessel each transceiver class it may announce
VesselStates(mmsi, t) ==
    { Vessel(mmsi, t, age) : age \in Ages }
    \cup { [Vessel(mmsi, t, 0) EXCEPT !.hasTimestamp = FALSE, !.timestamp = 0],
           [Vessel(mmsi, t, 0) EXCEPT !.posValid = FALSE],
           [Vessel(mmsi, t, 0) EXCEPT !.staticValid = FALSE],
           [Vessel(mmsi, t, 0) EXCEPT !.partBValid = FALSE] }
    \cup ( IF mmsi = SelfMMSI THEN {}
           ELSE { [Vessel(mmsi, t, 0) EXCEPT !.aisClass = "A"],
                  [Vessel(mmsi, t, 0) EXCEPT !.aisClass = "A", !.staticValid = FALSE],
                  [Vessel(mmsi, t, 0) EXCEPT !.aisClass = "none"] } )

NoVessels == [defined |-> FALSE, values |-> <<>>]

\* the registry at time t: undefined, or the own vessel and another one, at
\* least one of them with a fresh fix and valid data
VesselSources(t) ==
    { NoVessels }
    \cup { [defined |-> TRUE, values |-> <<s, Vessel(OtherMMSI, t, 0)>>] :
             s \in VesselStates(SelfMMSI, t) }
    \cup { [defined |-> TRUE, values |-> <<Vessel(SelfMMSI, t, 0), o>>] :
             o \in VesselStates(OtherMMSI, t) }

\* raw configurations
OptionsA ==
    [ endpoints |-> <<
        [ ipAddress |-> "10.0.0.1", port |-> 2001,
          positionUpdateInterval |-> [scalar |-> 1],
          staticUpdateInterval |-> [scalar |-> 2],
          myVessel |-> [expiryInterval |-> 1],
          otherVessels |-> [expiryInterval |-> 2] ] >> ]

OptionsB ==
    [ endpoints |-> <<
        [ name |-> "B", ipAddress |-> "10.0.0.1", port |-> 2001,
          myVessel |-> [ expiryInterval |-> 20,
                         positionUpdateInterval |-> [array |-> <<2, 1>>],
                         staticUpdateInterval |-> [array |-> <<0, 3>>],
                         updateIntervalIndexPath |-> "environment.mode" ],
          otherVessels |-> [ expiryInterval |-> 1,
                             positionUpdateInterval |-> [scalar |-> 1],
                             staticUpdateInterval |-> [scalar |-> 2] ] ] >> ]

OptionsC ==
    [ expiryInterval |-> 1,
      positionUpdateInterval |-> [scalar |-> 3],
      myVessel |-> [ positionUpdateInterval |-> [scalar |-> 1],
                     staticUpdateInterval |-> [scalar |-> 1] ],
      endpoints |-> <<
        [ ipAddress |-> "10.0.0.2", port |-> 2002 ],
        [ ipAddress |-> "10.0.0.2", port |-> 2003,
          otherVessels |-> [ expiryInterval |-> 2, staticUpdateInterval |-> [scalar |-> 2] ] ] >> ]

OptionsNoPort ==
    [ endpoints |-> << [ ipAddress |-> "10.0.0.1", staticUpdateInterval |-> [scalar |-> 1] ] >> ]

OptionsNoAddress ==
    [ endpoints |-> << [ port |-> 2001, staticUpdateInterval |-> [scalar |-> 1] ] >> ]

\* the second endpoint has no port
OptionsSecondNoPort ==
    [ staticUpdateInterval |-> [scalar |-> 1],
      endpoints |-> << [ ipAddress |-> "10.0.0.1", port |-> 2001,
                         staticUpdateInterval |-> [scalar |-> 1] ],
                       [ ipAddress |-> "10.0.0.2", staticUpdateInterval |-> [scalar |-> 1] ] >> ]

OptionsNoEndpoints == [ endpoints |-> <<>> ]

OptionsMinimal == [ endpoints |-> << [ ipAddress |-> "10.0.0.1", port |-> 2001 ] >> ]

RawOptions == { OptionsA, OptionsB, OptionsC, OptionsNoPort, OptionsNoAddress, OptionsSecondNoPort,
               OptionsNoEndpoints, OptionsMinimal }

SelfClasses == { "", "A" }

----------------------------------------------------------------------------
(* State and operations *)

NoConfiguration == [defined |-> FALSE]

Endpoints == IF pluginConfiguration.defined THEN pluginConfiguration.value.endpoints ELSE <<>>

NoTick == [ heartbeat |-> 0 - 1, now |-> 0, vessels |-> NoVessels, store |-> DefaultStore,
            endpoints |-> <<>> ]

NoResponse == [code |-> 0, body |-> EmptyObject]

NoStart == [called |-> FALSE]

\* the default status texts of start (lines 907, 911, 915; the first without
\* the count and the names of the endpoints)
NoStatus == ""
StatusReporting == "Reporting to endpoints"
StatusNoEndpoints == "Stopped: no configured endpoints"
StatusConfigurationError == "Stopped: configuration error"

Init ==
    /\ started = FALSE
    /\ pluginConfiguration = NoConfiguration
    /\ pluginStatus = NoStatus
    /\ udpSocket = "undefined"
    /\ heartbeatInterval = FALSE
    /\ orphans = <<>>
    /\ heartbeatCount = 0
    /\ now = Epoch
    /\ lastOp = "init"
    /\ raised = FALSE
    /\ lastStart = NoStart
    /\ lastTick = NoTick
    /\ response = NoResponse

\* the timers of orphans, none of them referred to by heartbeatInterval
Released(timers) == [k \in DOMAIN timers |-> [timers[k] EXCEPT !.held = FALSE]]

\* the timer heartbeatInterval refers to, if it is armed, once the value of
\* pluginConfiguration is another object
Replaced(held) ==
    IF heartbeatInterval THEN << [cfg |-> pluginConfiguration.value, held |-> held] >> ELSE <<>>

\* clearInterval(heartbeatInterval) on the other timers
Cleared(timers) == SelectSeq(timers, LAMBDA timer : ~timer.held)

\* a start that arms the timer whatever the endpoint list is
startArmAlways(options, selfClass) ==
    /\ started' = TRUE
    /\ LET made == makePluginConfiguration(options, SelfMMSI, selfClass, now)
       IN  IF made.threw
           THEN /\ pluginStatus' = StatusConfigurationError
                /\ UNCHANGED <<pluginConfiguration, heartbeatInterval, orphans, udpSocket>>
           ELSE /\ pluginConfiguration' = [defined |-> TRUE, value |-> made.value]
                /\ pluginStatus' = IF Len(made.value.endpoints) > 0
                                   THEN StatusReporting ELSE StatusNoEndpoints
                /\ heartbeatInterval' = TRUE
                /\ orphans' = Released(orphans) \o Replaced(FALSE)
                /\ udpSocket' = "open"
    /\ lastOp' = "start"
    /\ raised' = FALSE
    /\ lastStart' = [called |-> TRUE, options |-> options, selfClass |-> selfClass]
    /\ response' = NoResponse
    /\ UNCHANGED <<heartbeatCount, now, lastTick>>

\* plugin.start (lines 901-918).  The new configuration is a new object:
\* a timer that is armed when start is called keeps the object it was
\* started with.  With endpoints, heartbeatInterval is overwritten with the
\* new timer and udpSocket with a new socket; without, both keep their values
start(options, selfClass) ==
    /\ started' = TRUE
    /\ LET made == makePluginConfiguration(options, SelfMMSI, selfClass, now)
       IN  IF made.threw
           THEN /\ pluginStatus' = StatusConfigurationError
                /\ UNCHANGED <<pluginConfiguration, heartbeatInterval, orphans, udpSocket>>
           ELSE /\ pluginConfiguration' = [defined |-> TRUE, value |-> made.value]
                /\ IF Len(made.value.endpoints) > 0
                   THEN /\ pluginStatus' = StatusReporting
                        /\ heartbeatInterval' = TRUE
                        /\ orphans' = Released(orphans) \o Replaced(FALSE)
                        /\ udpSocket' = "open"
                   ELSE /\ pluginStatus' = StatusNoEndpoints
                        /\ heartbeatInterval' = FALSE
                        /\ orphans' = orphans \o Replaced(TRUE)
                        /\ UNCHANGED udpSocket
    /\ lastOp' = "start"
    /\ raised' = FALSE
    /\ lastStart' = [called |-> TRUE, options |-> options, selfClass |-> selfClass]
    /\ response' = NoResponse
    /\ UNCHANGED <<heartbeatCount, now, lastTick>>

\* a stop that closes the socket and leaves the timer armed
stopKeepTimer ==
    /\ started' = FALSE
    /\ CASE udpSocket = "open" -> udpSocket' = "closed" /\ raised' = FALSE
         [] udpSocket = "closed" -> udpSocket' = "closed" /\ raised' \in BOOLEAN
         [] OTHER -> udpSocket' = udpSocket /\ raised' = TRUE
    /\ lastOp' = "stop"
    /\ response' = NoResponse
    /\ lastStart' = NoStart
    /\ UNCHANGED <<pluginConfiguration, pluginStatus, heartbeatInterval, orphans,
                   heartbeatCount, now, lastTick>>

\* plugin.stop (lines 919-922): clearInterval(heartbeatInterval), then
\* udpSocket.close(), which throws TypeError when udpSocket is undefined;
\* whether closing a closed socket throws is up to the socket library
stop ==
    /\ started' = FALSE
    /\ heartbeatInterval' = FALSE
    /\ orphans' = Cleared(orphans)
    /\ CASE udpSocket = "open" -> udpSocket' = "closed" /\ raised' = FALSE
         [] udpSocket = "closed" -> udpSocket' = "closed" /\ raised' \in BOOLEAN
         [] OTHER -> udpSocket' = udpSocket /\ raised' = TRUE
    /\ lastOp' = "stop"
    /\ response' = NoResponse
    /\ lastStart' = NoStart
    /\ UNCHANGED <<pluginConfiguration, pluginStatus, heartbeatCount, now, lastTick>>

\* the generator of one of the endpoint's report types threw
ThrewIn(did) ==
    \/ did.position.called /\ ~did.position.returned
    \/ did.static.called /\ ~did.static.returned

\* an endpoint the heartbeat did not get to
NotProcessed(endpoint) ==
    [ endpoint |-> endpoint,
      did |-> [ mvPUI |-> 0, mvSUI |-> 0, ovPUI |-> 0, ovSUI |-> 0,
                position |-> NoCall, static |-> NoCall, heartbeat |-> 0 - 1 ] ]

\* a heartbeat that does not count itself when an endpoint's generator threw
heartbeatKeepCountOnThrow(vessels, store) ==
    LET t == now + DEFAULT_HEARTBEAT_INTERVAL
        cfg == pluginConfiguration.value
        done == [ i \in DOMAIN cfg.endpoints |->
                    processEndpoint(cfg.endpoints[i], cfg, heartbeatCount, vessels, store, t) ]
    IN  /\ now' = t
        /\ pluginConfiguration' =
              [pluginConfiguration EXCEPT !.value.endpoints = [i \in DOMAIN done |-> done[i].endpoint]]
        /\ heartbeatCount' = IF \E i \in DOMAIN done : ThrewIn(done[i].did)
                             THEN heartbeatCount ELSE heartbeatCount + 1
        /\ lastTick' = [ heartbeat |-> heartbeatCount, now |-> t, vessels |-> vessels,
                         store |-> store, endpoints |-> [i \in DOMAIN done |-> done[i].did] ]
        /\ lastOp' = "tick"
        /\ response' = NoResponse
        /\ raised' = FALSE
        /\ lastStart' = NoStart
        /\ UNCHANGED <<started, heartbeatInterval, orphans, pluginStatus, udpSocket>>

\* a heartbeat without the try/catch around an endpoint: the first generator
\* that throws ends the forEach, and the endpoints after it are not processed
heartbeatAbortOnThrow(vessels, store) ==
    LET t == now + DEFAULT_HEARTBEAT_INTERVAL
        cfg == pluginConfiguration.value
        each == [ i \in DOMAIN cfg.endpoints |->
                    processEndpoint(cfg.endpoints[i], cfg, heartbeatCount, vessels, store, t) ]
        done == [ i \in DOMAIN cfg.endpoints |->
                    IF \E j \in 1..(i - 1) : ThrewIn(each[j].did)
                    THEN NotProcessed(cfg.endpoints[i]) ELSE each[i] ]
    IN  /\ now' = t
        /\ pluginConfiguration' =
              [pluginConfiguration EXCEPT !.value.endpoints = [i \in DOMAIN done |-> done[i].endpoint]]
        /\ heartbeatCount' = heartbeatCount + 1
        /\ lastTick' = [ heartbeat |-> heartbeatCount, now |-> t, vessels |-> vessels,
                         store |-> store, endpoints |-> [i \in DOMAIN done |-> done[i].did] ]
        /\ lastOp' = "tick"
        /\ response' = NoResponse
        /\ raised' = FALSE
        /\ lastStart' = NoStart
        /\ UNCHANGED <<started, heartbeatInterval, orphans, pluginStatus, udpSocket>>

\* a heartbeat whose endpoints all hold the statistics object of the first
heartbeatSharedStatistics(vessels, store) ==
    LET t == now + DEFAULT_HEARTBEAT_INTERVAL
        cfg == pluginConfiguration.value
        done == [ i \in DOMAIN cfg.endpoints |->
                    processEndpoint(cfg.endpoints[i], cfg, heartbeatCount, vessels, store, t) ]
    IN  /\ now' = t
        /\ pluginConfiguration' =
              [pluginConfiguration EXCEPT !.value.endpoints =
                  [i \in DOMAIN done |->
                      [done[i].endpoint EXCEPT !.statistics = done[1].endpoint.statistics]]]
        /\ heartbeatCount' = heartbeatCount + 1
        /\ lastTick' = [ heartbeat |-> heartbeatCount, now |-> t, vessels |-> vessels,
                         store |-> store, endpoints |-> [i \in DOMAIN done |-> done[i].did] ]
        /\ lastOp' = "tick"
        /\ response' = NoResponse
        /\ raised' = FALSE
        /\ lastStart' = NoStart
        /\ UNCHANGED <<started, heartbeatInterval, orphans, pluginStatus, udpSocket>>

\* one firing of the heartbeat timer (lines 1015-1048), a heartbeat period
\* after the last
heartbeat(vessels, store) ==
    LET t == now + DEFAULT_HEARTBEAT_INTERVAL
        cfg == pluginConfiguration.value
        done == [ i \in DOMAIN cfg.endpoints |->
                    processEndpoint(cfg.endpoints[i], cfg, heartbeatCount, vessels, store, t) ]
    IN  /\ now' = t
        /\ pluginConfiguration' =
              [pluginConfiguration EXCEPT !.value.endpoints = [i \in DOMAIN done |-> done[i].endpoint]]
        /\ heartbeatCount' = heartbeatCount + 1
        /\ lastTick' = [ heartbeat |-> heartbeatCount, now |-> t, vessels |-> vessels,
                         store |-> store, endpoints |-> [i \in DOMAIN done |-> done[i].did] ]
        /\ lastOp' = "tick"
        /\ response' = NoResponse
        /\ raised' = FALSE
        /\ lastStart' = NoStart
        /\ UNCHANGED <<started, heartbeatInterval, orphans, pluginStatus, udpSocket>>

UsesPath == \E i \in DOMAIN Endpoints :
                \/ Endpoints[i].myVessel.updateIntervalIndexPath # NoPath
                \/ Endpoints[i].otherVessels.updateIntervalIndexPath # NoPath

\* the registries a run of Spec draws from: undefined, both vessels fresh,
\* one of them with an old fix, one of them without a fix
FewVesselSources(t) ==
    { NoVessels,
      [defined |-> TRUE, values |-> <<Vessel(SelfMMSI, t, 0), Vessel(OtherMMSI, t, 0)>>],
      [defined |-> TRUE, values |-> <<Vessel(SelfMMSI, t, 90000), Vessel(OtherMMSI, t, 0)>>],
      [defined |-> TRUE, values |-> <<Vessel(SelfMMSI, t, 0),
             [Vessel(OtherMMSI, t, 0) EXCEPT !.hasTimestamp = FALSE, !.timestamp = 0]>>] }

Tick ==
    /\ heartbeatInterval
    /\ heartbeatCount < MaxTicks
    /\ \E vessels \in FewVesselSources(now + DEFAULT_HEARTBEAT_INTERVAL),
          store \in (IF UsesPath THEN Stores ELSE {DefaultStore}) :
            heartbeat(vessels, store)

\* a status request that sets the heartbeat count back
StatusClearsCount ==
    /\ response' = handleRoutes(pluginConfiguration)
    /\ lastOp' = "status"
    /\ raised' = FALSE
    /\ lastStart' = NoStart
    /\ heartbeatCount' = 0
    /\ UNCHANGED <<started, pluginConfiguration, pluginStatus, udpSocket, heartbeatInterval,
                   orphans, now, lastTick>>

\* GET /status (lines 1247-1297)
Status ==
    /\ response' = handleRoutes(pluginConfiguration)
    /\ lastOp' = "status"
    /\ raised' = FALSE
    /\ lastStart' = NoStart
    /\ UNCHANGED <<started, pluginConfiguration, pluginStatus, udpSocket, heartbeatInterval,
                   orphans, heartbeatCount, now, lastTick>>

\* the host starts a plugin that is not started
Start == ~started /\ \E options \in RawOptions, selfClass \in SelfClasses : start(options, selfClass)

Stop == stop

Next == Start \/ Stop \/ Tick \/ Status

Spec == Init /\ [][Next]_vars

----------------------------------------------------------------------------
(* Runs of the heartbeat alone, from the state a successful start leaves    *)

Started(options, selfClass) ==
    /\ started = TRUE
    /\ pluginConfiguration =
          [defined |-> TRUE, value |-> makePluginConfiguration(options, SelfMMSI, selfClass, Epoch).value]
    /\ pluginStatus = StatusReporting
    /\ udpSocket = "open"
    /\ heartbeatInterval = TRUE
    /\ orphans = <<>>
    /\ heartbeatCount = 0
    /\ now = Epoch
    /\ lastOp = "start"
    /\ raised = FALSE
    /\ lastStart = [called |-> TRUE, options |-> options, selfClass |-> selfClass]
    /\ lastTick = NoTick
    /\ response = NoResponse

\* every state of the registry, a few heartbeats
GenStores == { DefaultStore, [p \in Paths |-> Number(1)] }

InitGen == \E options \in {OptionsA, OptionsB, OptionsC}, selfClass \in SelfClasses :
              Started(options, selfClass)

TickGen ==
    /\ heartbeatCount < GenTicks
    /\ \E vessels \in VesselSources(now + DEFAULT_HEARTBEAT_INTERVAL),
          store \in (IF UsesPath THEN GenStores ELSE {DefaultStore}) :
            heartbeat(vessels, store)

SpecGen == InitGen /\ [][TickGen]_vars

\* a steady registry (both vessels with a fresh fix and valid data), many
\* heartbeats
OptionsEvery(position, static) ==
    [ endpoints |-> <<
        [ ipAddress |-> "10.0.0.1", port |-> 2001,
          positionUpdateInterval |-> [scalar |-> position],
          staticUpdateInterval |-> [scalar |-> static] ] >> ]

LongOptions == { OptionsEvery(1, 1), OptionsEvery(1, 0), OptionsEvery(5, 15), OptionsEvery(7, 24),
                 OptionsEvery(0, 0) }

InitLong == \E options \in LongOptions : Started(options, "")

TickLong ==
    /\ heartbeatCount < LongTicks
    /\ LET t == now + DEFAULT_HEARTBEAT_INTERVAL
       IN  heartbeat([defined |-> TRUE, values |-> <<Vessel(SelfMMSI, t, 0), Vessel(OtherMMSI, t, 0)>>],
                     DefaultStore)

SpecLong == InitLong /\ [][TickLong]_vars

\* the same runs, with a status request between any two heartbeats
SpecRead == InitLong /\ [][TickLong \/ Status]_vars

\* two index paths that change between heartbeats, two endpoints with
\* different schedules, a registry that is there or not
SchedTicks == 4

SchedPaths == {"environment.mode", "environment.depth"}

SchedStores == [SchedPaths -> {NoValue, Number(1)}]

OptionsIdx ==
    [ endpoints |-> <<
        [ name |-> "idx", ipAddress |-> "10.0.0.1", port |-> 2001,
          myVessel |-> [ positionUpdateInterval |-> [array |-> <<5, 1>>],
                         staticUpdateInterval |-> [array |-> <<0, 2>>],
                         updateIntervalIndexPath |-> "environment.mode" ],
          otherVessels |-> [ positionUpdateInterval |-> [array |-> <<2, 3>>],
                             staticUpdateInterval |-> [array |-> <<0, 0>>],
                             updateIntervalIndexPath |-> "environment.depth" ] ] >> ]

OptionsTwo ==
    [ endpoints |-> <<
        [ name |-> "one", ipAddress |-> "10.0.0.1", port |-> 2001,
          positionUpdateInterval |-> [scalar |-> 1],
          staticUpdateInterval |-> [scalar |-> 0] ],
        [ name |-> "two", ipAddress |-> "10.0.0.2", port |-> 2002,
          positionUpdateInterval |-> [scalar |-> 2],
          staticUpdateInterval |-> [scalar |-> 3] ] >> ]

\* positionUpdateInterval: 0, staticUpdateInterval: 1
OptionsPositionOff ==
    [ endpoints |-> <<
        [ name |-> "off", ipAddress |-> "10.0.0.1", port |-> 2001,
          positionUpdateInterval |-> [scalar |-> 0],
          staticUpdateInterval |-> [scalar |-> 1] ] >> ]

InitSched == \E options \in {OptionsIdx, OptionsTwo, OptionsPositionOff} : Started(options, "")

TickSched ==
    /\ heartbeatCount < SchedTicks
    /\ LET t == now + DEFAULT_HEARTBEAT_INTERVAL
       IN  \E vessels \in { NoVessels,
                             [defined |-> TRUE,
                              values |-> <<Vessel(SelfMMSI, t, 0), Vessel(OtherMMSI, t, 0)>>] },
              store \in (IF UsesPath THEN SchedStores ELSE {[p \in SchedPaths |-> NoValue]}) :
                heartbeat(vessels, store)

SpecSched == InitSched /\ [][TickSched]_vars

----------------------------------------------------------------------------
(* Runs of start alone, over raw options that place a leaf at every subset  *)
(* of the places it is looked up in                                         *)

Leaves == { "expiryInterval", "positionUpdateInterval", "staticUpdateInterval",
            "updateIntervalIndexPath" }

\* the places of a raw configuration that can hold a leaf
Places == { "option.myVessel", "option.otherVessels", "option",
            "options.myVessel", "options.otherVessels", "options" }

PlaceNumber(place) ==
    CASE place = "option.myVessel" -> 1
      [] place = "option.otherVessels" -> 2
      [] place = "option" -> 3
      [] place = "options.myVessel" -> 4
      [] place = "options.otherVessels" -> 5
      [] place = "options" -> 6

\* a value of the leaf that tells the place it was written at: a number for
\* expiryInterval, a scalar or a two element array for the intervals, a path
RawValue(leaf, place) ==
    LET n == PlaceNumber(place)
    IN  CASE leaf = "expiryInterval" -> 20 + n
          [] leaf = "updateIntervalIndexPath" -> place
          [] OTHER -> IF n % 2 = 0 THEN [array |-> <<n, n + 1>>] ELSE [scalar |-> n]

\* the raw options with one endpoint that define the leaf at the places of
\* at, and (withStatic) staticUpdateInterval for the endpoint's own vessel
OptionsWith(leaf, at, withStatic) ==
    LET put(place) == IF place \in at THEN leaf :> RawValue(leaf, place) ELSE EmptyObject
        sub(name, o) == IF o = EmptyObject THEN EmptyObject ELSE name :> o
        static == IF withStatic /\ leaf # "staticUpdateInterval"
                  THEN "staticUpdateInterval" :> [scalar |-> 9] ELSE EmptyObject
        option == [ ipAddress |-> "10.0.0.1", port |-> 2001 ]
                    @@ put("option")
                    @@ sub("myVessel", put("option.myVessel") @@ static)
                    @@ sub("otherVessels", put("option.otherVessels"))
    IN  [ endpoints |-> << option >> ]
          @@ put("options")
          @@ sub("myVessel", put("options.myVessel"))
          @@ sub("otherVessels", put("options.otherVessels"))

\* positionUpdateInterval: [] (the schema asks for no minimum length)
OptionsEmptyArray ==
    [ endpoints |-> << [ ipAddress |-> "10.0.0.1", port |-> 2001,
                         positionUpdateInterval |-> [array |-> <<>>],
                         staticUpdateInterval |-> [scalar |-> 2] ] >> ]

\* positionUpdateInterval: 3, staticUpdateInterval: 2
OptionsStaticFaster ==
    [ endpoints |-> << [ ipAddress |-> "10.0.0.1", port |-> 2001,
                         positionUpdateInterval |-> [scalar |-> 3],
                         staticUpdateInterval |-> [scalar |-> 2] ] >> ]

NormOptions ==
    { OptionsWith(leaf, at, withStatic) :
         leaf \in Leaves, at \in SUBSET Places, withStatic \in BOOLEAN }
      \cup RawOptions
      \cup { OptionsEmptyArray, OptionsStaticFaster }

InitNorm == Init

StartNorm == ~started /\ \E options \in NormOptions : start(options, "")

SpecNorm == InitNorm /\ [][StartNorm]_vars

----------------------------------------------------------------------------
(* Runs in which start is called whatever the plugin's state                *)

CallTicks == 2

MaxOrphans == 2

\* the timers armed
Armed == (IF heartbeatInterval THEN 1 ELSE 0) + Len(orphans)

\* one firing of a timer of orphans (lines 1015-1048): the callback works on
\* the endpoints of the configuration startReporting was handed, with the
\* heartbeat count all timers share; the generators read myMMSI and
\* myAisClass of the current value of pluginConfiguration (lines 1088, 1093)
heartbeatOrphan(k, vessels, store) ==
    LET t == now
        cfg == orphans[k].cfg
        done == [ i \in DOMAIN cfg.endpoints |->
                    processEndpoint(cfg.endpoints[i], pluginConfiguration.value, heartbeatCount,
                                    vessels, store, t) ]
    IN  /\ orphans' = [orphans EXCEPT ![k].cfg.endpoints = [i \in DOMAIN done |-> done[i].endpoint]]
        /\ heartbeatCount' = heartbeatCount + 1
        /\ lastTick' = [ heartbeat |-> heartbeatCount, now |-> t, vessels |-> vessels,
                         store |-> store, endpoints |-> [i \in DOMAIN done |-> done[i].did] ]
        /\ lastOp' = "orphan tick"
        /\ response' = NoResponse
        /\ raised' = FALSE
        /\ lastStart' = NoStart
        /\ UNCHANGED <<started, pluginConfiguration, heartbeatInterval, pluginStatus, udpSocket, now>>

CallOptions == { OptionsA, OptionsTwo, OptionsNoEndpoints, OptionsNoPort }

SteadyVessels(t) == [defined |-> TRUE, values |-> <<Vessel(SelfMMSI, t, 0), Vessel(OtherMMSI, t, 0)>>]

StartAny ==
    /\ Len(orphans) < MaxOrphans
    /\ \E options \in CallOptions : start(options, "")

TickCalls ==
    /\ heartbeatInterval
    /\ heartbeatCount < CallTicks
    /\ heartbeat(SteadyVessels(now + DEFAULT_HEARTBEAT_INTERVAL), DefaultStore)

TickOrphan ==
    /\ heartbeatCount < CallTicks
    /\ \E k \in DOMAIN orphans : heartbeatOrphan(k, SteadyVessels(now), DefaultStore)

SpecCalls == Init /\ [][StartAny \/ Stop \/ TickCalls \/ TickOrphan]_vars

----------------------------------------------------------------------------
(* Vocabulary of the properties *)

ReportTypes == {"position", "static"}

\* the resolved interval of a class and report type at the last heartbeat
IntervalOf(did, class, type) ==
    IF class = "myVessel"
    THEN (IF type = "position" THEN did.mvPUI ELSE did.mvSUI)
    ELSE (IF type = "position" THEN did.ovPUI ELSE did.ovSUI)

\* the report type fired for the class: the generator was called with its flag set
FiredFor(did, class, type) ==
    /\ did[type].called
    /\ IF class = "myVessel" THEN did[type].reportSelf ELSE did[type].reportOthers

\* the generator of an earlier report type of the endpoint threw, so the
\* heartbeat left the endpoint before deciding this type
LeftBefore(did, type) == type = "static" /\ did.position.called /\ ~did.position.returned

ClassOf(vessel) == IF vessel.mmsi = SelfMMSI THEN "myVessel" ELSE "otherVessels"

AgeAt(vessel, t) == t - vessel.timestamp

\* the call transmitted a sentence for the vessel
Reported(call, vessel) == \E k \in DOMAIN call.sent : call.sent[k].mmsi = vessel.mmsi

\* the encoder accepts the vessel's data for the report type
Encodable(type, vessel, cfg) ==
    IF type = "position" THEN vessel.posValid
    ELSE \/ AisClassOf(vessel, cfg) = "A" /\ vessel.staticValid
         \/ AisClassOf(vessel, cfg) = "B" /\ vessel.staticValid /\ vessel.partBValid

SeenVessels == { lastTick.vessels.values[k] : k \in DOMAIN lastTick.vessels.values }

AfterTick == lastOp = "tick"

----------------------------------------------------------------------------
(* C1: at every heartbeat, for every endpoint, vessel class and report      *)
(* type, the report fires for the class exactly when its resolved interval  *)
(* is greater than 0 and divides the heartbeat count; the generator is      *)
(* called exactly when it fires for one of the two classes.                 *)

ShouldFire(interval, t) == interval > 0 /\ \E k \in 0..t : k * interval = t

C1_FiresIffIntervalDivides ==
    AfterTick =>
      \A i \in DOMAIN lastTick.endpoints : \A type \in ReportTypes :
        LET did == lastTick.endpoints[i]
        IN  ~LeftBefore(did, type) =>
              /\ \A class \in {"myVessel", "otherVessels"} :
                    FiredFor(did, class, type)
                      <=> ShouldFire(IntervalOf(did, class, type), lastTick.heartbeat)
              /\ did[type].called
                      <=> \E class \in {"myVessel", "otherVessels"} :
                             ShouldFire(IntervalOf(did, class, type), lastTick.heartbeat)

\* heartbeat 1 of an endpoint whose own vessel reports its position every 2
\* heartbeats and never its static data, and whose other vessels report every
\* heartbeat: the position report fires for the others alone
C1_Witness ==
    /\ AfterTick
    /\ lastTick.heartbeat = 1
    /\ \E i \in DOMAIN lastTick.endpoints :
          LET did == lastTick.endpoints[i]
          IN  /\ did.mvPUI = 2 /\ did.mvSUI = 0 /\ did.ovPUI = 1
              /\ did.position.called /\ ~did.position.reportSelf /\ did.position.reportOthers
              /\ ~did.static.reportSelf

----------------------------------------------------------------------------
(* C2: a vessel whose fix is exactly expiryInterval minutes old (the        *)
(* expiryInterval of its class, in the same unit for both classes) is       *)
(* reported by a generator called for its class, and a vessel whose fix is  *)
(* one millisecond older is not.                                            *)

C2_BoundaryInclusive ==
    AfterTick =>
      \A i \in DOMAIN lastTick.endpoints : \A type \in ReportTypes : \A vessel \in SeenVessels :
        LET did == lastTick.endpoints[i]
            expiry == Endpoints[i][ClassOf(vessel)].expiryInterval * MsPerMinute
        IN  ( /\ did[type].returned
              /\ FiredFor(did, ClassOf(vessel), type)
              /\ vessel.hasTimestamp
              /\ Encodable(type, vessel, pluginConfiguration.value) )
            => /\ AgeAt(vessel, lastTick.now) = expiry => Reported(did[type], vessel)
               /\ AgeAt(vessel, lastTick.now) = expiry + 1 => ~Reported(did[type], vessel)

----------------------------------------------------------------------------
(* C3: a generator never reports a vessel whose fix is older than the       *)
(* expiryInterval of the vessel's own class, whatever the two flags are.    *)

C3_OwnClassExpiry ==
    AfterTick =>
      \A i \in DOMAIN lastTick.endpoints : \A type \in ReportTypes : \A vessel \in SeenVessels :
        Reported(lastTick.endpoints[i][type], vessel)
          => /\ vessel.hasTimestamp
             /\ AgeAt(vessel, lastTick.now)
                  <= Endpoints[i][ClassOf(vessel)].expiryInterval * MsPerMinute

----------------------------------------------------------------------------
(* C4: a generator call reports and counts a vessel only if the flag of     *)
(* the vessel's class is set: without reportSelf the own vessel is neither  *)
(* transmitted nor counted, without reportOthers no other vessel is.        *)

C4_OnlyFlaggedClasses ==
    AfterTick =>
      \A i \in DOMAIN lastTick.endpoints : \A type \in ReportTypes :
        LET call == lastTick.endpoints[i][type]
        IN  /\ \A vessel \in SeenVessels :
                  Reported(call, vessel) =>
                     IF vessel.mmsi = SelfMMSI THEN call.reportSelf ELSE call.reportOthers
            /\ \A k \in DOMAIN call.sent : \E vessel \in SeenVessels : call.sent[k].mmsi = vessel.mmsi
            /\ ~call.reportSelf => call.reportStatistics.myVessel = [count |-> 0, bytes |-> 0]
            /\ ~call.reportOthers => call.reportStatistics.otherVessels = [count |-> 0, bytes |-> 0]

\* a heartbeat at which a report fires for one class alone while the vessel
\* of the other class has a fresh fix and valid data, and a report goes out
C4_Witness ==
    /\ AfterTick
    /\ \E i \in DOMAIN lastTick.endpoints : \E type \in ReportTypes :
          LET call == lastTick.endpoints[i][type]
          IN  /\ call.returned
              /\ call.reportSelf # call.reportOthers
              /\ call.sent # <<>>
              /\ \A vessel \in SeenVessels :
                    /\ vessel.hasTimestamp
                    /\ AgeAt(vessel, lastTick.now) = 0
                    /\ Encodable(type, vessel, pluginConfiguration.value)

----------------------------------------------------------------------------
(* Vocabulary of the statistics properties *)

RingNames == { "reportsTransmittedInLastHour", "bytesTransmittedInLastHour",
               "reportsTransmittedInLastDay", "bytesTransmittedInLastDay" }

RingSize(ring) ==
    IF ring \in {"reportsTransmittedInLastHour", "bytesTransmittedInLastHour"} THEN HourRing ELSE DayRing

CountOf(call) == call.reportStatistics.myVessel.count + call.reportStatistics.otherVessels.count

BytesOf(call) == call.reportStatistics.myVessel.bytes + call.reportStatistics.otherVessels.bytes

\* what a generator call adds to a ring (nothing when it was not called)
Contribution(call, ring) ==
    IF ring \in {"reportsTransmittedInLastHour", "reportsTransmittedInLastDay"}
    THEN CountOf(call) ELSE BytesOf(call)

TotalOf(ring) ==
    IF ring \in {"reportsTransmittedInLastHour", "reportsTransmittedInLastDay"}
    THEN "totalReportsTransmitted" ELSE "totalBytesTransmitted"

\* new is old moved by one bucket, the oldest slot dropped, with v added to
\* the bucket that was current or to the fresh one
IsShift(old, new, v, n) ==
    \/ new = <<0>> \o SubSeq([old EXCEPT ![1] = @ + v], 1, n - 1)
    \/ new = <<v>> \o SubSeq(old, 1, n - 1)

TicksPerHour == 3600000 \div DEFAULT_HEARTBEAT_INTERVAL

----------------------------------------------------------------------------
(* C5: every rolling window moves on the heartbeat count alone: at each     *)
(* heartbeat whose count is a (positive) multiple of the ring size the      *)
(* window shifts by one bucket, and at no other, whether or not a report    *)
(* fired at that heartbeat.                                                 *)

C5_ShiftOnCounterAlone ==
    [][ lastOp' = "tick" =>
          \A i \in DOMAIN Endpoints : \A type \in ReportTypes : \A ring \in RingNames :
            LET t == lastTick'.heartbeat
                old == Endpoints[i].statistics[type][ring]
                new == Endpoints'[i].statistics[type][ring]
                v == Contribution(lastTick'.endpoints[i][type], ring)
            IN  IF t > 0 /\ t % RingSize(ring) = 0
                THEN IsShift(old, new, v, RingSize(ring))
                ELSE new = [old EXCEPT ![1] = @ + v]
      ]_vars

----------------------------------------------------------------------------
(* C6: a slot of an hour ring holds the reports of one heartbeat and a slot *)
(* of a day ring those of 60 heartbeats, so that the hour sum holds no more *)
(* than the reports of 60 heartbeats and the day sum no more than those of  *)
(* 1440.  One heartbeat reports each vessel of the registry at most once.   *)

C6_SlotsHoldOnePeriod ==
    AfterTick =>
      \A i \in DOMAIN Endpoints : \A type \in ReportTypes :
        LET st == Endpoints[i].statistics[type]
            perTick == Len(lastTick.vessels.values)
        IN  /\ \A k \in 1..HourRing : st.reportsTransmittedInLastHour[k] <= perTick
            /\ \A k \in 1..DayRing : st.reportsTransmittedInLastDay[k] <= TicksPerHour * perTick
            /\ SumSeq(st.reportsTransmittedInLastHour) <= HourRing * perTick
            /\ SumSeq(st.reportsTransmittedInLastDay) <= DayRing * TicksPerHour * perTick

----------------------------------------------------------------------------
(* C7: the endpoint's cumulative byte total, in the state and in the        *)
(* snapshot, is the sum of the byte totals of its two report types.         *)

C7_EndpointBytesAreSum ==
    /\ \A i \in DOMAIN Endpoints :
          Endpoints[i].statistics.totalBytesTransmitted
            = Endpoints[i].statistics.position.totalBytesTransmitted
              + Endpoints[i].statistics.static.totalBytesTransmitted
    /\ response.code = 200 =>
          \A n \in DOMAIN response.body :
             response.body[n].statistics.totalBytesTransmitted
               = response.body[n].statistics.position.totalBytesTransmitted
                 + response.body[n].statistics.static.totalBytesTransmitted

----------------------------------------------------------------------------
(* C8: each time a report type fires for an endpoint and its generator      *)
(* returns, the type's totalReportsTransmitted grows by selfCount +         *)
(* othersCount and its totalBytesTransmitted by selfBytes + othersBytes of  *)
(* the result; with positionUpdateIntervals = [1] and the own vessel the    *)
(* only one reported, after heartbeat 0 the position totals are 1 report    *)
(* and the length of the sentence plus 1 bytes.                             *)

C8_TotalsGrowByResult ==
    [][ lastOp' = "tick" =>
          \A i \in DOMAIN Endpoints : \A type \in ReportTypes :
            LET call == lastTick'.endpoints[i][type]
                old == Endpoints[i].statistics[type]
                new == Endpoints'[i].statistics[type]
            IN  /\ call.returned =>
                     /\ new.totalReportsTransmitted
                          = old.totalReportsTransmitted
                            + call.reportStatistics.myVessel.count + call.reportStatistics.otherVessels.count
                     /\ new.totalBytesTransmitted
                          = old.totalBytesTransmitted
                            + call.reportStatistics.myVessel.bytes + call.reportStatistics.otherVessels.bytes
                /\ ( /\ type = "position"
                     /\ lastTick'.heartbeat = 0
                     /\ Endpoints[i].myVessel.positionUpdateIntervals = <<1>>
                     /\ Len(call.sent) = 1
                     /\ call.sent[1].mmsi = SelfMMSI )
                   => /\ new.totalReportsTransmitted = 1
                      /\ new.totalBytesTransmitted = call.sent[1].length + 1
      ]_vars

\* after heartbeat 0 of an endpoint with positionUpdateIntervals = [1], at
\* which the own vessel alone was reported: one report, its length + 1 bytes
C8_Witness ==
    /\ AfterTick
    /\ lastTick.heartbeat = 0
    /\ \E i \in DOMAIN Endpoints :
          /\ Endpoints[i].myVessel.positionUpdateIntervals = <<1>>
          /\ lastTick.endpoints[i].position.returned
          /\ Len(lastTick.endpoints[i].position.sent) = 1
          /\ lastTick.endpoints[i].position.sent[1].mmsi = SelfMMSI
          /\ Endpoints[i].statistics.position.totalReportsTransmitted = 1
          /\ Endpoints[i].statistics.position.totalBytesTransmitted = PosNmeaLen + 1

----------------------------------------------------------------------------
(* C9: the totals a status snapshot shows for an endpoint and report type   *)
(* never decrease, over heartbeats, status reads, stops and starts.         *)

\* the totals GET /status shows under an endpoint name are those of the
\* endpoint the snapshot keeps for that name
ObservedMonotone ==
    \A n \in Names(Endpoints) \cap Names(Endpoints') : \A type \in ReportTypes :
       LET before == Shown(Endpoints, n).statistics[type]
           after == Shown(Endpoints', n).statistics[type]
       IN  /\ after.totalReportsTransmitted >= before.totalReportsTransmitted
           /\ after.totalBytesTransmitted >= before.totalBytesTransmitted

C9_TotalsNeverDecrease == [][ObservedMonotone]_vars

\* as amended: they never decrease over heartbeats, status reads and stops;
\* a start that builds a configuration replaces the statistics by new ones
C9_TotalsDecreaseOnlyAtStart ==
    [][ (lastOp' = "start" /\ pluginConfiguration' # pluginConfiguration) \/ ObservedMonotone ]_vars

\* a heartbeat that adds reports to totals that earlier heartbeats made
C9_Witness ==
    /\ AfterTick
    /\ \E i \in DOMAIN Endpoints :
          /\ Names(Endpoints) = {Endpoints[i].name}
          /\ CountOf(lastTick.endpoints[i].position) > 0
          /\ Endpoints[i].statistics.position.totalReportsTransmitted
               > CountOf(lastTick.endpoints[i].position)

----------------------------------------------------------------------------
(* C10: in every state, for every endpoint and report type, the sum of the  *)
(* slots of each rolling window is at most the matching cumulative total.   *)

C10_WindowSumAtMostTotal ==
    \A i \in DOMAIN Endpoints : \A type \in ReportTypes : \A ring \in RingNames :
       SumSeq(Endpoints[i].statistics[type][ring]) <= Endpoints[i].statistics[type][TotalOf(ring)]

\* a day window that has dropped reports: its sum is positive and smaller
\* than the total
C10_Witness ==
    \E i \in DOMAIN Endpoints :
       LET st == Endpoints[i].statistics.position
       IN  /\ SumSeq(st.reportsTransmittedInLastDay) > 0
           /\ SumSeq(st.reportsTransmittedInLastDay) < st.totalReportsTransmitted
           /\ SumSeq(st.bytesTransmittedInLastDay) < st.totalBytesTransmitted

----------------------------------------------------------------------------
(* C11: from a ring of 60 zeros, with a report type that fires at every     *)
(* heartbeat and contributes 2 reports each time, the hour window sums to   *)
(* 118 after 59 heartbeats; the 60th heartbeat rotates the window, and      *)
(* right after it the front slot is a fresh zero and the other 59 slots sum *)
(* to everything reported so far.                                           *)

\* the report type of the only endpoint fires for both classes at every
\* heartbeat, and the registry holds two reportable vessels
EveryTickTwo(type) ==
    /\ Len(Endpoints) = 1
    /\ Endpoints[1].myVessel[IF type = "position" THEN "positionUpdateIntervals"
                             ELSE "staticUpdateIntervals"] = <<1>>
    /\ Endpoints[1].otherVessels[IF type = "position" THEN "positionUpdateIntervals"
                                 ELSE "staticUpdateIntervals"] = <<1>>
    /\ AfterTick
    /\ CountOf(lastTick.endpoints[1][type]) = 2

HourReports(type) == Endpoints[1].statistics[type].reportsTransmittedInLastHour

\* the front slot is a fresh zero and the other slots hold all the reports
RotatedWhole(type) ==
    /\ HourReports(type)[1] = 0
    /\ SumSeq(SubSeq(HourReports(type), 2, HourRing))
         = Endpoints[1].statistics[type].totalReportsTransmitted

C11_RotationOnSixtiethTick ==
    \A type \in ReportTypes :
       EveryTickTwo(type) =>
          /\ lastTick.heartbeat = HourRing - 2 => SumSeq(HourReports(type)) = 2 * (HourRing - 1)
          /\ lastTick.heartbeat = HourRing - 1 => RotatedWhole(type)

\* as amended: the 60th heartbeat (count 59) adds to the same slot and does
\* not rotate; the first rotation is at the 61st heartbeat (count 60), after
\* which the front slot is a fresh zero and the other 59 slots sum to
\* everything reported so far, that heartbeat's 2 reports included
C11_RotationOnSixtyFirstTick ==
    \A type \in ReportTypes :
       EveryTickTwo(type) =>
          /\ lastTick.heartbeat = HourRing - 2 => SumSeq(HourReports(type)) = 2 * (HourRing - 1)
          /\ lastTick.heartbeat = HourRing - 1 =>
                HourReports(type) = [k \in 1..HourRing |-> IF k = 1 THEN 2 * HourRing ELSE 0]
          /\ lastTick.heartbeat = HourRing =>
                /\ RotatedWhole(type)
                /\ HourReports(type)
                     = [k \in 1..HourRing |-> IF k = 2 THEN 2 * (HourRing + 1) ELSE 0]

\* right after the heartbeat of count 60: 122 reports, all in the second slot
C11_Witness ==
    /\ EveryTickTwo("position")
    /\ lastTick.heartbeat = HourRing
    /\ HourReports("position")[1] = 0
    /\ HourReports("position")[2] = 2 * (HourRing + 1)
    /\ Endpoints[1].statistics.position.totalReportsTransmitted = 2 * (HourRing + 1)

----------------------------------------------------------------------------
(* C12: in every state every hour window has exactly 60 slots and every day *)
(* window exactly 24, whatever updates and rotations have happened.         *)

C12_RingsKeepTheirSize ==
    \A i \in DOMAIN Endpoints : \A type \in ReportTypes : \A ring \in RingNames :
       Len(Endpoints[i].statistics[type][ring]) = RingSize(ring)

\* an hour window and a day window that have both rotated and hold reports in
\* a slot behind the front one
C12_Witness ==
    \E i \in DOMAIN Endpoints :
       LET st == Endpoints[i].statistics.position
       IN  /\ lastTick.heartbeat > HourRing
           /\ st.reportsTransmittedInLastHour[2] > 0
           /\ st.reportsTransmittedInLastDay[3] > 0
           /\ Len(st.reportsTransmittedInLastHour) = HourRing
           /\ Len(st.reportsTransmittedInLastDay) = DayRing

----------------------------------------------------------------------------
(* Vocabulary of the index properties *)

Classes == {"myVessel", "otherVessels"}

IntervalsName(type) ==
    IF type = "position" THEN "positionUpdateIntervals" ELSE "staticUpdateIntervals"

\* the external value under the index path of a class at the last heartbeat
ExternalOf(i, class) == lastTick.store[Endpoints[i][class].updateIntervalIndexPath]

HasPath(i, class) == Endpoints[i][class].updateIntervalIndexPath # NoPath

----------------------------------------------------------------------------
(* C13: when the external index of a class is a number past the end of a    *)
(* configured interval sequence, the interval used at that heartbeat is the *)
(* last element of the sequence.                                            *)

C13_OutOfRangeClampsToLast ==
    AfterTick =>
      \A i \in DOMAIN lastTick.endpoints : \A class \in Classes : \A type \in ReportTypes :
        LET intervals == Endpoints[i][class][IntervalsName(type)]
        IN  ( /\ HasPath(i, class)
              /\ ExternalOf(i, class).kind = "number"
              /\ ExternalOf(i, class).n >= Len(intervals) )
            => IntervalOf(lastTick.endpoints[i], class, type) = intervals[Len(intervals)]

----------------------------------------------------------------------------
(* C14: the intervals a class uses at a heartbeat are element 0 of its two  *)
(* sequences when no index path is configured, and also when the path is    *)
(* configured but the external value is missing, not a number or negative.  *)

C14_IndexZeroWhenMissingOrInvalid ==
    AfterTick =>
      \A i \in DOMAIN lastTick.endpoints : \A class \in Classes : \A type \in ReportTypes :
        LET intervals == Endpoints[i][class][IntervalsName(type)]
        IN  ( \/ ~HasPath(i, class)
              \/ ExternalOf(i, class).kind = "undefined"
              \/ ExternalOf(i, class).kind = "text"
              \/ ExternalOf(i, class).kind = "number" /\ ExternalOf(i, class).n < 0 )
            => IntervalOf(lastTick.endpoints[i], class, type) = intervals[1]

----------------------------------------------------------------------------
(* C15: with an index path configured, each heartbeat reads the index anew  *)
(* and decides with the interval at the index it has just read, for the own *)
(* vessel and for the others each with their own index: with index 1 and    *)
(* positionUpdateIntervals = [5, 1] the own position fires at heartbeat 3,  *)
(* and an index that changed since the last heartbeat decides this one.     *)

\* the element the value under the class's path selects (the values of
\* these runs are missing or in range)
SelectedInterval(i, class, type) ==
    LET intervals == Endpoints[i][class][IntervalsName(type)]
        value == ExternalOf(i, class)
    IN  IF value.kind = "number" THEN intervals[value.n + 1] ELSE intervals[1]

C15_IndexResolvedEveryTick ==
    AfterTick =>
      \A i \in DOMAIN lastTick.endpoints : \A class \in Classes : \A type \in ReportTypes :
        LET did == lastTick.endpoints[i]
        IN  (HasPath(i, class) /\ ~LeftBefore(did, type)) =>
              /\ IntervalOf(did, class, type) = SelectedInterval(i, class, type)
              /\ FiredFor(did, class, type)
                   <=> ShouldFire(SelectedInterval(i, class, type), lastTick.heartbeat)
              /\ ( /\ class = "myVessel" /\ type = "position"
                   /\ Endpoints[i].myVessel.positionUpdateIntervals = <<5, 1>>
                   /\ ExternalOf(i, class) = Number(1)
                   /\ lastTick.heartbeat = 3 )
                 => did.position.called /\ did.position.reportSelf

\* heartbeat 3 with the own index at 1 and the others' index missing: the
\* position report fires for the own vessel alone (interval 1, not 5), and
\* the others are decided with element 0 of their sequence (interval 2)
C15_Witness ==
    /\ AfterTick
    /\ lastTick.heartbeat = 3
    /\ \E i \in DOMAIN lastTick.endpoints :
          LET did == lastTick.endpoints[i]
          IN  /\ Endpoints[i].myVessel.positionUpdateIntervals = <<5, 1>>
              /\ HasPath(i, "myVessel") /\ HasPath(i, "otherVessels")
              /\ ExternalOf(i, "myVessel") = Number(1)
              /\ ExternalOf(i, "otherVessels") = NoValue
              /\ did.mvPUI = 1 /\ did.ovPUI = 2
              /\ did.position.called /\ did.position.reportSelf /\ ~did.position.reportOthers
              /\ Reported(did.position, Vessel(SelfMMSI, lastTick.now, 0))

----------------------------------------------------------------------------
(* C16: at every heartbeat and for every endpoint the position generator is *)
(* called once and the static generator is called once, however many        *)
(* classes fired, each call with the two flags computed at that heartbeat.  *)

SomeClassShouldFire(did, type) ==
    \E class \in Classes : ShouldFire(IntervalOf(did, class, type), lastTick.heartbeat)

\* the sentences of one kind a call transmitted for a vessel
SentencesFor(call, mmsi, kind) ==
    { k \in DOMAIN call.sent : call.sent[k].mmsi = mmsi /\ call.sent[k].kind = kind }

SentenceKinds == {"position", "static5", "part0", "part1"}

C16_BothGeneratorsCalledEveryTick ==
    AfterTick =>
      \A i \in DOMAIN lastTick.endpoints : \A type \in ReportTypes :
        lastTick.endpoints[i][type].called

\* as amended: a generator is called at most once per endpoint and
\* heartbeat: once, with the two flags of that heartbeat, when the report
\* type fires for at least one class (and, for the static generator, the
\* position generator has not thrown), and not at all when it fires for
\* neither; one call transmits a vessel at most once, also when both
\* classes fired
C16_OneCallWhenSomeClassFires ==
    AfterTick =>
      \A i \in DOMAIN lastTick.endpoints : \A type \in ReportTypes :
        LET did == lastTick.endpoints[i]
            call == did[type]
        IN  /\ call.called <=> (SomeClassShouldFire(did, type) /\ ~LeftBefore(did, type))
            /\ call.called =>
                 /\ call.reportSelf
                      <=> ShouldFire(IntervalOf(did, "myVessel", type), lastTick.heartbeat)
                 /\ call.reportOthers
                      <=> ShouldFire(IntervalOf(did, "otherVessels", type), lastTick.heartbeat)
            /\ ~call.called => call.sent = <<>> /\ call.reportStatistics = NoReports
            /\ \A vessel \in SeenVessels : \A kind \in SentenceKinds :
                  Cardinality(SentencesFor(call, vessel.mmsi, kind)) <= 1

\* heartbeat 1 of two endpoints: for the first the position report fires for
\* both classes, in one call that transmits each vessel once; for the second
\* no report type fires and no generator is called
C16_Witness ==
    /\ AfterTick
    /\ lastTick.heartbeat = 1
    /\ Len(lastTick.endpoints) = 2
    /\ LET one == lastTick.endpoints[1]
           two == lastTick.endpoints[2]
       IN  /\ one.position.called /\ one.position.reportSelf /\ one.position.reportOthers
           /\ Len(one.position.sent) = 2
           /\ CountOf(one.position) = 2
           /\ ~two.position.called /\ ~two.static.called
           /\ two.mvPUI = 2 /\ two.mvSUI = 3

----------------------------------------------------------------------------
(* C17: all the endpoints of a heartbeat read the same heartbeat count, and *)
(* the count grows by exactly 1 after the last endpoint at every heartbeat, *)
(* also when no report fired and when the processing of endpoints failed.   *)

C17_CountGrowsByOneEveryTick ==
    [][ lastOp' = "tick" =>
          /\ heartbeatCount' = heartbeatCount + 1
          /\ lastTick'.heartbeat = heartbeatCount
          /\ \A i \in DOMAIN lastTick'.endpoints : lastTick'.endpoints[i].heartbeat = heartbeatCount
      ]_vars

\* heartbeat 1 of two endpoints without a registry: the generator of the
\* first endpoint threw, nothing fired for the second, and the count is 2
C17_Witness ==
    /\ AfterTick
    /\ lastTick.heartbeat = 1
    /\ heartbeatCount = 2
    /\ Len(lastTick.endpoints) = 2
    /\ ThrewIn(lastTick.endpoints[1])
    /\ ~lastTick.endpoints[2].position.called /\ ~lastTick.endpoints[2].static.called
    /\ \A i \in DOMAIN lastTick.endpoints : lastTick.endpoints[i].heartbeat = 1

----------------------------------------------------------------------------
(* C18: a generator that throws for one endpoint ends the heartbeat for     *)
(* that endpoint alone: every endpoint is still processed at the same       *)
(* heartbeat, with the firing decisions of its own schedule and the         *)
(* statistics updates of its own generator calls.                           *)

\* the interval the schedule of an endpoint gives a class at a heartbeat (the
\* values of these runs are missing or in range)
ScheduledInterval(endpoint, class, type, store) ==
    LET path == endpoint[class].updateIntervalIndexPath
        intervals == endpoint[class][IntervalsName(type)]
    IN  IF path # NoPath /\ store[path].kind = "number"
        THEN intervals[store[path].n + 1]
        ELSE intervals[1]

----------------------------------------------------------------------------
(* Vocabulary of the generator properties *)

\* the bytes of the sentences of a call: the length of each, plus 1
RECURSIVE SentBytesFrom(_, _)
SentBytesFrom(sent, k) ==
    IF k > Len(sent) THEN 0 ELSE sent[k].length + 1 + SentBytesFrom(sent, k + 1)

ReportedVessels(call) == { vessel \in SeenVessels : Reported(call, vessel) }

\* the result counts the vessels that were transmitted, each once, and the
\* bytes of their sentences
ResultMatchesSent(call) ==
    /\ CountOf(call) = Cardinality(ReportedVessels(call))
    /\ BytesOf(call) = SentBytesFrom(call.sent, 1)

\* the generator was called for the vessel's class and the vessel passed
\* the two filters
Selected(i, call, vessel) ==
    /\ ClassSelected(vessel, pluginConfiguration.value, call.reportSelf, call.reportOthers)
    /\ FreshSelected(vessel, Endpoints[i], call.reportSelf, call.reportOthers, lastTick.now)

----------------------------------------------------------------------------
(* C19: for a class B vessel the static generator transmits both sentences  *)
(* (part 0 and part 1) and counts the vessel once, or transmits neither and *)
(* does not count it; when part 1 does not encode after part 0 did, no      *)
(* sentence goes out and neither the count nor the bytes of the result      *)
(* change.                                                                  *)

C19_ClassBBothPartsOrNone ==
    AfterTick =>
      \A i \in DOMAIN lastTick.endpoints :
        LET call == lastTick.endpoints[i].static
        IN  call.returned =>
              /\ ResultMatchesSent(call)
              /\ \A vessel \in SeenVessels :
                    AisClassOf(vessel, pluginConfiguration.value) = "B" =>
                      LET part0 == Cardinality(SentencesFor(call, vessel.mmsi, "part0"))
                          part1 == Cardinality(SentencesFor(call, vessel.mmsi, "part1"))
                      IN  /\ part0 = part1 /\ part0 <= 1
                          /\ Cardinality(SentencesFor(call, vessel.mmsi, "static5")) = 0
                          /\ (vessel.staticValid /\ ~vessel.partBValid) => part0 = 0
                          /\ ( /\ Selected(i, call, vessel)
                               /\ vessel.staticValid /\ vessel.partBValid ) => part0 = 1

\* a static call for both classes in which the own vessel, of class B with a
\* fresh fix, encodes part 0 and not part 1: nothing goes out for it, and
\* the other vessel's two sentences are the whole result
C19_Witness ==
    /\ AfterTick
    /\ \E i \in DOMAIN lastTick.endpoints :
          LET call == lastTick.endpoints[i].static
          IN  /\ call.returned /\ call.reportSelf /\ call.reportOthers
              /\ \E vessel \in SeenVessels :
                    /\ vessel.mmsi = SelfMMSI
                    /\ AisClassOf(vessel, pluginConfiguration.value) = "B"
                    /\ Selected(i, call, vessel)
                    /\ vessel.staticValid /\ ~vessel.partBValid
                    /\ ~Reported(call, vessel)
              /\ Len(call.sent) = 2
              /\ call.reportStatistics.myVessel = [count |-> 0, bytes |-> 0]
              /\ call.reportStatistics.otherVessels
                   = [count |-> 1, bytes |-> Part0NmeaLen + 1 + Part1NmeaLen + 1]

----------------------------------------------------------------------------
(* C20: a vessel whose encoding fails contributes no sentence and nothing   *)
(* to the result, and every other vessel the call selected is transmitted   *)
(* and counted as without the failure; the heartbeat goes on.               *)

C20_EncodeFailureIsPerVessel ==
    AfterTick =>
      /\ heartbeatCount = lastTick.heartbeat + 1
      /\ \A i \in DOMAIN lastTick.endpoints : \A type \in ReportTypes :
           LET did == lastTick.endpoints[i]
               call == did[type]
           IN  /\ call.returned =>
                    /\ ResultMatchesSent(call)
                    /\ \A vessel \in SeenVessels :
                          Reported(call, vessel)
                            <=> ( /\ Selected(i, call, vessel)
                                  /\ Encodable(type, vessel, pluginConfiguration.value) )
               /\ (type = "static" /\ did.position.returned) =>
                    (call.called /\ call.returned) <=> SomeClassShouldFire(did, type)

\* a position call for both classes in which the encoding of the own vessel,
\* the first of the registry, fails: the other vessel is transmitted and
\* counted, and the static generator is still called at that heartbeat
C20_Witness ==
    /\ AfterTick
    /\ \E i \in DOMAIN lastTick.endpoints :
          LET did == lastTick.endpoints[i]
          IN  /\ did.position.returned /\ did.position.reportSelf /\ did.position.reportOthers
              /\ lastTick.vessels.values[1].mmsi = SelfMMSI
              /\ Selected(i, did.position, lastTick.vessels.values[1])
              /\ ~lastTick.vessels.values[1].posValid
              /\ ~Reported(did.position, lastTick.vessels.values[1])
              /\ Reported(did.position, lastTick.vessels.values[2])
              /\ CountOf(did.position) = 1
              /\ BytesOf(did.position) = PosNmeaLen + 1
              /\ did.static.returned /\ CountOf(did.static) = 2

----------------------------------------------------------------------------
(* C21: the result of a generator call counts every transmitted vessel      *)
(* once, whatever the number of its sentences, and the length + 1 of every  *)
(* sentence, in the bucket of the vessel's own class: the own vessel in     *)
(* myVessel, every other vessel in otherVessels; a class B static report    *)
(* adds 1 to the count and the length + 1 of part 0 and of part 1 to the    *)
(* bytes.                                                                   *)

\* the bucket of a vessel's own class
BucketOf(vessel) == IF vessel.mmsi = SelfMMSI THEN "myVessel" ELSE "otherVessels"

\* the bytes of the sentences of a call that belong to the vessels of a bucket
RECURSIVE BucketBytesFrom(_, _, _)
BucketBytesFrom(sent, bucket, k) ==
    IF k > Len(sent) THEN 0
    ELSE (IF BucketOf(sent[k]) = bucket THEN sent[k].length + 1 ELSE 0)
           + BucketBytesFrom(sent, bucket, k + 1)

C21_OncePerVesselInOwnBucket ==
    AfterTick =>
      \A i \in DOMAIN lastTick.endpoints : \A type \in ReportTypes :
        LET call == lastTick.endpoints[i][type]
        IN  call.returned =>
              \A bucket \in Classes :
                /\ call.reportStatistics[bucket].count
                     = Cardinality({ vessel \in ReportedVessels(call) : BucketOf(vessel) = bucket })
                /\ call.reportStatistics[bucket].bytes = BucketBytesFrom(call.sent, bucket, 1)
                /\ \A vessel \in ReportedVessels(call) :
                      ( /\ type = "static"
                        /\ AisClassOf(vessel, pluginConfiguration.value) = "B"
                        /\ Cardinality(ReportedVessels(call)) = 1
                        /\ BucketOf(vessel) = bucket )
                      => call.reportStatistics[bucket]
                           = [count |-> 1, bytes |-> Part0NmeaLen + 1 + Part1NmeaLen + 1]

\* a static call for both classes that transmits the own vessel, of class A,
\* in one sentence and the other vessel, of class B, in two: each bucket
\* counts 1, with the bytes of its own vessel's sentences
C21_Witness ==
    /\ AfterTick
    /\ \E i \in DOMAIN lastTick.endpoints :
          LET call == lastTick.endpoints[i].static
          IN  /\ call.returned /\ call.reportSelf /\ call.reportOthers
              /\ Len(call.sent) = 3
              /\ Cardinality(ReportedVessels(call)) = 2
              /\ call.reportStatistics.myVessel = [count |-> 1, bytes |-> StaticANmeaLen + 1]
              /\ call.reportStatistics.otherVessels
                   = [count |-> 1, bytes |-> Part0NmeaLen + 1 + Part1NmeaLen + 1]

----------------------------------------------------------------------------
(* Vocabulary of the normalization properties *)

\* start was the last step, with these raw options
JustStarted == lastStart.called

RawEndpoints == lastStart.options.endpoints

\* every endpoint entry of the raw options gives an address and a port
AllAddressed(options) ==
    \A i \in DOMAIN options.endpoints :
        LET option == options.endpoints[i]
        IN  /\ Has(option, "ipAddress") /\ option.ipAddress # ""
            /\ Has(option, "port") /\ option.port # 0

\* the normalization of the last start returned a configuration
Normalized == JustStarted /\ pluginStatus # StatusConfigurationError

\* the first defined value of a leaf in the order endpoint and class,
\* endpoint, global and class, global; the fallback when none defines it
FirstDefined(options, option, class, leaf, fallback) ==
    IF Has(SubObject(option, class), leaf) THEN option[class][leaf]
    ELSE IF Has(option, leaf) THEN option[leaf]
    ELSE IF Has(SubObject(options, class), leaf) THEN options[class][leaf]
    ELSE IF Has(options, leaf) THEN options[leaf]
    ELSE fallback

\* a raw interval as a sequence
AsSequence(raw) == IF Has(raw, "array") THEN raw.array ELSE <<raw.scalar>>

\* the canonical leaves of an endpoint and class the order of the levels gives
ExpectedLeaves(options, option, class) ==
    [ expiryInterval |->
          FirstDefined(options, option, class, "expiryInterval", DEFAULT_EXPIRY_INTERVAL),
      positionUpdateIntervals |->
          AsSequence(FirstDefined(options, option, class, "positionUpdateInterval",
                                  [scalar |-> DEFAULT_POSITION_UPDATE_INTERVAL])),
      staticUpdateIntervals |->
          AsSequence(FirstDefined(options, option, class, "staticUpdateInterval",
                                  [scalar |-> DEFAULT_STATIC_DATA_UPDATE_INTERVAL])),
      updateIntervalIndexPath |->
          FirstDefined(options, option, class, "updateIntervalIndexPath", NoPath) ]

\* every endpoint of the configuration has the leaves the order gives
LeavesAsExpected ==
    /\ Len(Endpoints) = Len(RawEndpoints)
    /\ \A i \in DOMAIN Endpoints : \A class \in Classes :
          Endpoints[i][class] = ExpectedLeaves(lastStart.options, RawEndpoints[i], class)

----------------------------------------------------------------------------
(* C22: every leaf of every endpoint and class is the first defined value   *)
(* in the order endpoint and class, endpoint, global and class, global, and *)
(* the default when no level defines it; raw options whose endpoints give   *)
(* only an address and a port normalize to the defaults.                    *)

C22_FirstDefinedLevelOrDefault ==
    (JustStarted /\ AllAddressed(lastStart.options)) => (Normalized /\ LeavesAsExpected)

----------------------------------------------------------------------------
(* C23: when an endpoint entry of the raw options lacks an address or a     *)
(* port, start ends in a configuration error: it produces no configuration  *)
(* (the one of an earlier start, if any, stays as it was), does not arm the *)
(* timer, and no heartbeat runs and no report is counted while the status   *)
(* is the configuration error.                                              *)

C23_MissingAddressOrPortFails ==
    [][ /\ (lastStart'.called /\ ~AllAddressed(lastStart'.options)) =>
              /\ pluginStatus' = StatusConfigurationError
              /\ pluginConfiguration' = pluginConfiguration
              /\ ~heartbeatInterval'
        /\ (pluginStatus = StatusConfigurationError /\ pluginStatus' = StatusConfigurationError) =>
              /\ lastOp' # "tick"
              /\ ~heartbeatInterval'
              /\ heartbeatCount' = heartbeatCount
              /\ pluginConfiguration' = pluginConfiguration
      ]_vars

\* a start whose second endpoint has no port, after a run that made
\* reports: the status is the configuration error, the timer is not armed
\* and the configuration is still that of the earlier run
C23_Witness ==
    /\ JustStarted
    /\ lastStart.options = OptionsSecondNoPort
    /\ pluginStatus = StatusConfigurationError
    /\ ~heartbeatInterval
    /\ heartbeatCount > 0
    /\ Len(Endpoints) = 1
    /\ Endpoints[1].statistics.position.totalReportsTransmitted > 0

----------------------------------------------------------------------------
(* C24: after a normalization that returned, the position and the static    *)
(* intervals of both classes of every endpoint are non-empty sequences,     *)
(* whatever the raw configuration gave: a scalar, a sequence or nothing.    *)

C24_IntervalsNeverEmpty ==
    Normalized =>
      \A i \in DOMAIN Endpoints : \A class \in Classes :
        /\ Endpoints[i][class].positionUpdateIntervals # <<>>
        /\ Endpoints[i][class].staticUpdateIntervals # <<>>

----------------------------------------------------------------------------
(* C25: after a normalization that returned, for every endpoint, class and  *)
(* index, a nonzero static interval paired with a nonzero position interval *)
(* is not smaller than the position interval.                               *)

C25_StaticNotFasterThanPosition ==
    Normalized =>
      \A i \in DOMAIN Endpoints : \A class \in Classes :
        LET position == Endpoints[i][class].positionUpdateIntervals
            static == Endpoints[i][class].staticUpdateIntervals
        IN  \A k \in DOMAIN position \cap DOMAIN static :
              (position[k] # 0 /\ static[k] # 0) => static[k] >= position[k]

----------------------------------------------------------------------------
(* C26: start arms the timer exactly when the normalization returned and    *)
(* the list of endpoints is not empty; with an empty list the timer is not  *)
(* armed, the status is 'Stopped: no configured endpoints' and no heartbeat *)
(* runs.                                                                    *)

C26_ArmedIffEndpoints ==
    [][ /\ lastStart'.called =>
              LET made == makePluginConfiguration(lastStart'.options, SelfMMSI,
                                                  lastStart'.selfClass, now')
                  some == ~made.threw /\ Len(made.value.endpoints) > 0
              IN  /\ heartbeatInterval' <=> some
                  /\ (pluginStatus' = StatusReporting) <=> some
                  /\ (~made.threw /\ ~some) =>
                        /\ pluginStatus' = StatusNoEndpoints
                        /\ pluginConfiguration'.defined /\ Endpoints' = <<>>
        /\ pluginStatus = StatusNoEndpoints => (lastOp' # "tick" /\ ~heartbeatInterval)
      ]_vars

\* a start with an empty list of endpoints after a run of two heartbeats:
\* no timer, the degraded status, an empty configuration
C26_Witness ==
    /\ JustStarted
    /\ lastStart.options = OptionsNoEndpoints
    /\ heartbeatCount = 2
    /\ ~heartbeatInterval
    /\ pluginStatus = StatusNoEndpoints
    /\ pluginConfiguration.defined /\ Endpoints = <<>>

----------------------------------------------------------------------------
(* C27: after stop the timer is cancelled: until the next start no          *)
(* heartbeat runs, the heartbeat count does not change and no report is     *)
(* transmitted or counted.                                                  *)

C27_NoTickAfterStop ==
    [][ /\ lastOp' = "stop" => (~heartbeatInterval' /\ ~started')
        /\ ~started =>
              /\ lastOp' # "tick"
              /\ lastOp' # "start" =>
                    /\ ~heartbeatInterval'
                    /\ heartbeatCount' = heartbeatCount
                    /\ pluginConfiguration' = pluginConfiguration
                    /\ lastTick' = lastTick
      ]_vars

\* a status request after the stop of a run of two heartbeats that made
\* reports: the count is still 2 and the timer is off
C27_Witness ==
    /\ lastOp = "status"
    /\ ~started
    /\ udpSocket = "closed"
    /\ ~heartbeatInterval
    /\ heartbeatCount = 2
    /\ lastTick.heartbeat = 1
    /\ \E i \in DOMAIN Endpoints : Endpoints[i].statistics.position.totalReportsTransmitted > 0

----------------------------------------------------------------------------
(* C28: stop raises no error, also when it is called a second time and      *)
(* when no scheduler was ever running (start found no endpoints, or a       *)
(* configuration error), and a stop after a stop leaves every part of the   *)
(* state as it was.                                                         *)

C28_StopIsIdempotent ==
    [][ lastOp' = "stop" =>
          /\ ~raised'
          /\ lastOp = "stop" =>
                /\ started' = started
                /\ pluginConfiguration' = pluginConfiguration
                /\ pluginStatus' = pluginStatus
                /\ udpSocket' = udpSocket
                /\ heartbeatInterval' = heartbeatInterval
                /\ heartbeatCount' = heartbeatCount
      ]_vars

----------------------------------------------------------------------------
(* C29: the status snapshot has one entry for every endpoint of the         *)
(* configuration, under the endpoint's name (the address when no name is    *)
(* given): as many entries as endpoints, also when two endpoints have the   *)
(* same address and different ports.                                        *)

C29_OneEntryPerEndpoint ==
    (lastOp = "status" /\ response.code = 200) =>
      /\ DOMAIN response.body = Names(Endpoints)
      /\ Cardinality(DOMAIN response.body) = Len(Endpoints)

----------------------------------------------------------------------------
(* C30: for every endpoint and report type the snapshot shows the totals    *)
(* as they are when it is read, the sum of the 60 slots of each hour window *)
(* and of the 24 slots of each day window, and as lastReportTime 'never'    *)
(* until the first update of the statistics of that report type and the     *)
(* time of the last update afterwards.                                      *)

\* the sum of the first n slots of a window
RECURSIVE SlotSum(_, _)
SlotSum(window, n) == IF n = 0 THEN 0 ELSE window[n] + SlotSum(window, n - 1)

C30_SnapshotShowsTotalsAndSums ==
    (lastOp = "status" /\ response.code = 200) =>
      \A i \in DOMAIN Endpoints : \A type \in ReportTypes :
        LET s == Endpoints[i].statistics[type]
            shown == response.body[Endpoints[i].name].statistics[type]
        IN  /\ shown.totalReportsTransmitted = s.totalReportsTransmitted
            /\ shown.totalBytesTransmitted = s.totalBytesTransmitted
            /\ shown.reportsTransmittedInLastHour = SlotSum(s.reportsTransmittedInLastHour, 60)
            /\ shown.bytesTransmittedInLastHour = SlotSum(s.bytesTransmittedInLastHour, 60)
            /\ shown.reportsTransmittedInLastDay = SlotSum(s.reportsTransmittedInLastDay, 24)
            /\ shown.bytesTransmittedInLastDay = SlotSum(s.bytesTransmittedInLastDay, 24)
            /\ shown.lastReportTime.never <=> s.lastReportTimestamp = 0
            /\ ~shown.lastReportTime.never => shown.lastReportTime.iso = s.lastReportTimestamp
            /\ heartbeatCount = 0 => shown.lastReportTime.never
            /\ lastTick.endpoints # <<>> /\ lastTick.endpoints[i][type].returned =>
                  shown.lastReportTime = [never |-> FALSE, iso |-> lastTick.now]

\* a snapshot read after 62 heartbeats with a position report at each and
\* no static report: the hour window of the position reports has more than
\* one slot in use, and the static report has never been made
C30_Witness ==
    /\ lastOp = "status" /\ response.code = 200
    /\ heartbeatCount = 62
    /\ Len(Endpoints) = 1
    /\ LET s == Endpoints[1].statistics
           shown == response.body[Endpoints[1].name].statistics
       IN  /\ s.position.reportsTransmittedInLastHour[1] > 0
           /\ s.position.reportsTransmittedInLastHour[2] > 0
           /\ shown.position.reportsTransmittedInLastHour
                > s.position.reportsTransmittedInLastHour[1]
           /\ shown.position.reportsTransmittedInLastHour = shown.position.totalReportsTransmitted
           /\ ~shown.position.lastReportTime.never
           /\ shown.static.lastReportTime.never
           /\ shown.static.totalReportsTransmitted = 0

----------------------------------------------------------------------------
(* C31: a status request is read-only: between heartbeats, starts and stops *)
(* it leaves the heartbeat count, the configuration of the endpoints, every *)
(* total, every slot of every window and every lastReportTimestamp as they  *)
(* were, and the timer and the socket too.                                  *)

C31_StatusIsReadOnly ==
    [][ lastOp' = "status" =>
          /\ heartbeatCount' = heartbeatCount
          /\ pluginConfiguration' = pluginConfiguration
          /\ \A i \in DOMAIN Endpoints : \A type \in ReportTypes :
                Endpoints'[i].statistics[type] = Endpoints[i].statistics[type]
          /\ heartbeatInterval' = heartbeatInterval
          /\ started' = started
          /\ udpSocket' = udpSocket
          /\ pluginStatus' = pluginStatus
          /\ now' = now
      ]_vars

\* a status request between the second and the third heartbeat of a run
\* that has made reports: the timer is still armed and the count is 2
C31_Witness ==
    /\ lastOp = "status" /\ response.code = 200
    /\ started /\ heartbeatInterval
    /\ heartbeatCount = 2
    /\ lastTick.heartbeat = 1
    /\ \E i \in DOMAIN Endpoints :
          /\ Endpoints[i].statistics.position.totalReportsTransmitted > 0
          /\ Endpoints[i].statistics.position.lastReportTimestamp # 0

----------------------------------------------------------------------------
(* C32: a status request gets one response: 200 with the snapshot when the  *)
(* configuration is there to make it from, 500 without a body when making   *)
(* it fails, as before the first start that returned a configuration; a     *)
(* request that fails raises nothing and changes nothing of the scheduler.  *)

C32_StatusAlwaysAnswers ==
    [][ lastOp' = "status" =>
          /\ ~raised'
          /\ response'.code \in {200, 500}
          /\ response'.code = 200 <=> pluginConfiguration.defined
          /\ response'.code = 200 => response'.body = Snapshot(Endpoints)
          /\ response'.code = 500 =>
                /\ response'.body = EmptyObject
                /\ heartbeatCount' = heartbeatCount
                /\ pluginConfiguration' = pluginConfiguration
                /\ heartbeatInterval' = heartbeatInterval
                /\ started' = started
      ]_vars

\* a status request after a start that ended in a configuration error, with
\* no configuration from an earlier start: the answer is 500
C32_Witness ==
    /\ lastOp = "status"
    /\ response.code = 500
    /\ started
    /\ pluginStatus = StatusConfigurationError
    /\ ~pluginConfiguration.defined

----------------------------------------------------------------------------
(* C33: a position update interval of 0 disables the position and the       *)
(* static reporting of the endpoint it applies to: no position sentence and *)
(* no static sentence is transmitted to that endpoint.                      *)

\* every position interval of the endpoint, of both classes, is 0
PositionOff(endpoint) ==
    \A class \in Classes :
        \A k \in DOMAIN endpoint[class].positionUpdateIntervals :
            endpoint[class].positionUpdateIntervals[k] = 0

C33_PositionZeroDisablesAll ==
    AfterTick =>
      \A i \in DOMAIN lastTick.endpoints :
        PositionOff(Endpoints[i]) =>
          /\ lastTick.endpoints[i].position.sent = <<>>
          /\ lastTick.endpoints[i].static.sent = <<>>

----------------------------------------------------------------------------
(* C34: a vessel without the timestamp of a position fix is never reported: *)
(* whatever the flags and the expiry intervals of the call, neither         *)
(* generator transmits a sentence for it or counts it.                      *)

C34_NoFixNeverReported ==
    AfterTick =>
      \A i \in DOMAIN lastTick.endpoints : \A type \in ReportTypes :
        LET call == lastTick.endpoints[i][type]
        IN  \A vessel \in SeenVessels :
              ~vessel.hasTimestamp =>
                /\ ~Reported(call, vessel)
                /\ call.returned =>
                     call.reportStatistics[BucketOf(vessel)].count
                       = Cardinality({ other \in ReportedVessels(call) :
                                          /\ other.mmsi # vessel.mmsi
                                          /\ BucketOf(other) = BucketOf(vessel) })

\* a position call for both classes with the own vessel without a fix and
\* another vessel with a fresh one: only the other vessel is transmitted
\* and counted
C34_Witness ==
    /\ AfterTick
    /\ \E i \in DOMAIN lastTick.endpoints :
          LET call == lastTick.endpoints[i].position
          IN  /\ call.returned /\ call.reportSelf /\ call.reportOthers
              /\ \E vessel \in SeenVessels :
                    /\ vessel.mmsi = SelfMMSI
                    /\ ~vessel.hasTimestamp
                    /\ vessel.posValid
                    /\ ~Reported(call, vessel)
              /\ Len(call.sent) = 1
              /\ call.reportStatistics.myVessel.count = 0
              /\ call.reportStatistics.otherVessels.count = 1

----------------------------------------------------------------------------
(* C35: at a heartbeat in which a report type fires for neither class of an *)
(* endpoint, the statistics of that report type of that endpoint stay as    *)
(* they were: the two totals, the four windows and lastReportTimestamp.     *)

C35_NoFireNoChange ==
    [][ lastOp' = "tick" =>
          \A i \in DOMAIN Endpoints : \A type \in ReportTypes :
            LET old == Endpoints[i].statistics[type]
                new == Endpoints'[i].statistics[type]
                fires == \E class \in Classes :
                            ShouldFire(ScheduledInterval(Endpoints[i], class, type, lastTick'.store),
                                       heartbeatCount)
            IN  ~fires =>
                  /\ ~lastTick'.endpoints[i][type].called
                  /\ new.totalReportsTransmitted = old.totalReportsTransmitted
                  /\ new.totalBytesTransmitted = old.totalBytesTransmitted
                  /\ new.reportsTransmittedInLastHour = old.reportsTransmittedInLastHour
                  /\ new.bytesTransmittedInLastHour = old.bytesTransmittedInLastHour
                  /\ new.reportsTransmittedInLastDay = old.reportsTransmittedInLastDay
                  /\ new.bytesTransmittedInLastDay = old.bytesTransmittedInLastDay
                  /\ new.lastReportTimestamp = old.lastReportTimestamp
      ]_vars

\* heartbeat 1 of two endpoints, with both vessels in the registry: nothing
\* fires for the second endpoint (intervals 2 and 3), whose statistics are
\* those heartbeat 0 left, with the timestamp of heartbeat 0
C35_Witness ==
    /\ AfterTick
    /\ lastTick.heartbeat = 1
    /\ lastTick.vessels.defined
    /\ Len(lastTick.endpoints) = 2
    /\ lastTick.endpoints[1].position.returned
    /\ ~lastTick.endpoints[2].position.called /\ ~lastTick.endpoints[2].static.called
    /\ Endpoints[2].statistics.position.totalReportsTransmitted = 2
    /\ Endpoints[2].statistics.position.lastReportTimestamp = Epoch + DEFAULT_HEARTBEAT_INTERVAL
    /\ Endpoints[2].statistics.static.lastReportTimestamp = Epoch + DEFAULT_HEARTBEAT_INTERVAL
    /\ Endpoints[1].statistics.position.lastReportTimestamp = now
    /\ now = Epoch + 2 * DEFAULT_HEARTBEAT_INTERVAL

----------------------------------------------------------------------------
(* C36: endpoints share no statistics: at a heartbeat the statistics of a   *)
(* report type of an endpoint change by the call of that report type for    *)
(* that endpoint and by nothing else: not by the processing of another      *)
(* endpoint, and not by the other report type of the same endpoint.         *)

C36_StatisticsArePerEndpointAndType ==
    [][ lastOp' = "tick" =>
          \A i \in DOMAIN Endpoints : \A type \in ReportTypes :
            LET old == Endpoints[i].statistics[type]
                new == Endpoints'[i].statistics[type]
                call == lastTick'.endpoints[i][type]
            IN  IF call.returned
                THEN /\ new.totalReportsTransmitted = old.totalReportsTransmitted + CountOf(call)
                     /\ new.totalBytesTransmitted = old.totalBytesTransmitted + BytesOf(call)
                     /\ new.lastReportTimestamp = now'
                     /\ \A ring \in RingNames :
                           new[ring] = updateVector(
                               old[ring], RingSize(ring), heartbeatCount,
                               IF ring \in {"reportsTransmittedInLastHour",
                                            "reportsTransmittedInLastDay"}
                               THEN CountOf(call) ELSE BytesOf(call))
                ELSE new = old
      ]_vars

\* heartbeat 1 of two endpoints: the position report of the first endpoint
\* made two reports, in the statistics of the first endpoint alone, whose
\* static statistics are untouched; the second endpoint has what heartbeat 0
\* left it
C36_Witness ==
    /\ AfterTick
    /\ lastTick.heartbeat = 1
    /\ Len(lastTick.endpoints) = 2
    /\ CountOf(lastTick.endpoints[1].position) = 2
    /\ ~lastTick.endpoints[1].static.called
    /\ ~lastTick.endpoints[2].position.called /\ ~lastTick.endpoints[2].static.called
    /\ Endpoints[1].statistics.position.totalReportsTransmitted = 4
    /\ Endpoints[1].statistics.static = NewReportTypeStatistics
    /\ Endpoints[2].statistics.position.totalReportsTransmitted = 2
    /\ Endpoints[2].statistics.static.totalReportsTransmitted = 2

----------------------------------------------------------------------------
(* C37: for every endpoint and report type lastReportTimestamp is set only  *)
(* by a generator call that transmitted a report: it is unset (the snapshot *)
(* shows 'never') in every state in which totalReportsTransmitted is 0.     *)

----------------------------------------------------------------------------
(* C38: every start that arms the timer begins at heartbeat count 0, also   *)
(* after a stop and a restart, so at the first heartbeat after a start      *)
(* every report type whose active interval is not 0 fires.                  *)

C38_StartCountsFromZero ==
    [][ /\ (lastStart'.called /\ pluginStatus' = StatusReporting) => heartbeatCount' = 0
        /\ (lastOp = "start" /\ lastOp' = "tick") =>
              \A i \in DOMAIN lastTick'.endpoints : \A type \in ReportTypes :
                LET did == lastTick'.endpoints[i]
                IN  ~(type = "static" /\ did.position.called /\ ~did.position.returned) =>
                      \A class \in Classes :
                        IntervalOf(did, class, type) # 0 => FiredFor(did, class, type)
      ]_vars

----------------------------------------------------------------------------
(* C39: after any sequence of start and stop calls at most one timer is     *)
(* armed: the heartbeat count grows by at most 1 in a heartbeat period,     *)
(* every heartbeat works on the endpoints of the last configuration         *)
(* normalized, and after a stop no timer is armed.                          *)

C39_AtMostOneTimer ==
    [][ /\ Armed' <= 1
        /\ lastOp' = "stop" => Armed' = 0
        /\ heartbeatCount' # heartbeatCount =>
              /\ heartbeatCount' = heartbeatCount + 1
              /\ now' = now + DEFAULT_HEARTBEAT_INTERVAL
              /\ lastOp' = "tick"
              /\ Len(lastTick'.endpoints) = Len(Endpoints)
      ]_vars

============================================================================
